---- MODULE Spec2Model ----
(***************************************************************************)
(* A model of the dgi-toolkit screening pipeline:                          *)
(*   CSV repository -> row validator -> universe table -> filter strategy  *)
(*   -> scoring -> portfolio builder.                                      *)
(*                                                                         *)
(* Numbers.  The program computes in binary floating point; the model      *)
(* computes in exact arithmetic over integers.  Field values are whole     *)
(* percentages.  A normalised term of the default score is counted in      *)
(* hundredths, a score in three-hundredths (ScoreOne stands for 1.0), so   *)
(* that the divisions by 20, 100 and 3 of the scoring code are exact.  A   *)
(* weight is a fraction [num, den].                                        *)
(***************************************************************************)
EXTENDS Integers, Sequences, FiniteSets, TLC

VARIABLES
    pc,          \* position of the running call
    repo,        \* the repository the Screener was constructed with
    rows,        \* validate_rows: the raw rows being validated
    i,           \* validate_rows: 0-based index of the next row
    valid_rows,  \* validate_rows: records accepted so far
    errors,      \* validate_rows: error messages recorded so far
    log,         \* what the module loggers have been handed, in order
    vret,        \* how validate_rows ended
    df,          \* the table the caller passes to a pipeline stage
    args,        \* the other arguments of that call
    ret,         \* how the top-level call ended
    provider     \* an LLMProvider object and the environment it reads

vars == <<pc, repo, rows, i, valid_rows, errors, log, vret, df, args, ret, provider>>

(***************************************************************************)
(* Bounds of the model.                                                    *)
(***************************************************************************)
MaxRows == 3

(***************************************************************************)
(* Arithmetic and sequence helpers.                                        *)
(***************************************************************************)
Min(a, b) == IF a <= b THEN a ELSE b

Max(a, b) == IF a >= b THEN a ELSE b

RECURSIVE SeqsUpTo(_, _)
SeqsUpTo(S, n) ==
    IF n = 0 THEN {<<>>}
    ELSE LET shorter == SeqsUpTo(S, n - 1)
         IN  shorter \cup {Append(s, x) : s \in {t \in shorter : Len(t) = n - 1}, x \in S}

Indices(s) == 1..Len(s)

(***************************************************************************)
(* Raw rows, as CsvCompanyDataRepository hands them to the validator: a    *)
(* mapping from column name to a cell.  A text cell is a string ("" for an *)
(* empty or absent cell); a numeric cell is a number, a string that does   *)
(* not parse as a number, absent, or NaN: pd.read_csv turns an empty cell  *)
(* into the float NaN, dtype=str or not.                                   *)
(***************************************************************************)
Num(n) == [k |-> "num", v |-> n]

NotANumber == [k |-> "text", v |-> 0]

Absent == [k |-> "absent", v |-> 0]

NaN == [k |-> "nan", v |-> 0]

RawRow(sym, sec, y, p, c, f) ==
    [symbol |-> sym, name |-> IF sym = "" THEN "" ELSE "Corp", sector |-> sec,
     industry |-> "Software", dividend_yield |-> y, payout |-> p,
     dividend_cagr |-> c, fcf_yield |-> f]

LongSymbol == "ABCDEFGHIJKL"

StrLen(s) == IF s = "" THEN 0 ELSE IF s = LongSymbol THEN 12 ELSE 3

(***************************************************************************)
(* CompanyData: the field constraints of the pydantic model.               *)
(***************************************************************************)
SymbolMaxLen == 10
YieldMin == 0
YieldMax == 100
PayoutMin == 0
PayoutMax == 200
CagrMin == -100
CagrMax == 100
FcfMin == -100
FcfMax == 100

TextOk(s, maxlen) == StrLen(s) >= 1 /\ (maxlen = 0 \/ StrLen(s) <= maxlen)

\* must_be_number followed by the ge/le constraints of the field: float(v) of
\* a number or a numeric string, then the value is refused when it is below ge
\* or above le; NaN is a float and is neither (allow_inf_nan is left at True)
NumOk(cell, lo, hi) == cell.k = "nan" \/ (cell.k = "num" /\ lo <= cell.v /\ cell.v <= hi)

\* the float a record holds for a cell; NaN is shown as a value below every bound
CellValue(cell) == IF cell.k = "nan" THEN Min(CagrMin, FcfMin) - 1 ELSE cell.v

\* the fields pydantic reports as invalid, in declaration order
FieldErrors(row) ==
    (IF TextOk(row.symbol, SymbolMaxLen) THEN <<>> ELSE <<"symbol">>)
    \o (IF TextOk(row.name, 0) THEN <<>> ELSE <<"name">>)
    \o (IF TextOk(row.sector, 0) THEN <<>> ELSE <<"sector">>)
    \o (IF TextOk(row.industry, 0) THEN <<>> ELSE <<"industry">>)
    \o (IF NumOk(row.dividend_yield, YieldMin, YieldMax) THEN <<>> ELSE <<"dividend_yield">>)
    \o (IF NumOk(row.payout, PayoutMin, PayoutMax) THEN <<>> ELSE <<"payout">>)
    \o (IF NumOk(row.dividend_cagr, CagrMin, CagrMax) THEN <<>> ELSE <<"dividend_cagr">>)
    \o (IF NumOk(row.fcf_yield, FcfMin, FcfMax) THEN <<>> ELSE <<"fcf_yield">>)

\* the record built from a row that passed: payout and dividend_cagr are aliases
CompanyData(row) ==
    [symbol |-> row.symbol, name |-> row.name, sector |-> row.sector,
     industry |-> row.industry, dividend_yield |-> CellValue(row.dividend_yield),
     payout_ratio |-> CellValue(row.payout), dividend_growth_5y |-> CellValue(row.dividend_cagr),
     fcf_yield |-> CellValue(row.fcf_yield)]

NoCompany ==
    [symbol |-> "", name |-> "", sector |-> "", industry |-> "", dividend_yield |-> 0,
     payout_ratio |-> 0, dividend_growth_5y |-> 0, fcf_yield |-> 0]

(***************************************************************************)
(* Row validation strategies.  PydanticRowValidation raises                *)
(* ValidationError; the RowValidationStrategy protocol admits any other    *)
(* strategy, modelled by one that rejects the same rows with a KeyError.   *)
(***************************************************************************)
Strategies == {"PydanticRowValidation", "KeyErrorValidation"}

StrategyValidate(strategy, row) ==
    LET bad == FieldErrors(row)
    IN  IF bad = <<>>
        THEN [ok |-> TRUE, exc |-> "none", detail |-> <<>>, value |-> CompanyData(row)]
        ELSE [ok |-> FALSE,
              exc |-> IF strategy = "PydanticRowValidation" THEN "ValidationError"
                      ELSE "KeyError",
              detail |-> bad, value |-> NoCompany]

(***************************************************************************)
(* Messages.  A message line is [tag, detail]: tag is the number printed   *)
(* after "Row " (0 for a line that names no row), detail the rest.         *)
(***************************************************************************)
Line(tag, detail) == [tag |-> tag, detail |-> detail]

LogEntry(level, lines) == [level |-> level, lines |-> lines]

\* (mutant) the tag counts rows from 1 and forgets the header line
RowTag_NoHeader(idx) == idx + 1

\* f"Row {i + 2}: {e}" and f"Row {i + 2}: Unexpected error: {e}"
RowTag(idx) == idx + 2

RowError(idx, r) ==
    IF r.exc = "ValidationError" THEN Line(RowTag(idx), r.detail)
    ELSE Line(RowTag(idx), <<"Unexpected error">> \o r.detail)

\* "Validation errors:\n" + "\n".join(errors)
ValidationErrorsMessage(errs) == <<Line(0, <<"Validation errors:">>)>> \o errs

\* (mutant) the warning names the first skipped row only
SkippedMessage_FirstOnly(errs) ==
    <<Line(0, <<"Some rows were invalid and skipped:">>)>> \o SubSeq(errs, 1, 1)

\* "Some rows were invalid and skipped:\n" + "\n".join(errors)
SkippedMessage(errs) == <<Line(0, <<"Some rows were invalid and skipped:">>)>> \o errs

(***************************************************************************)
(* Tables (DataFrames): an ordered column list and rows that keep their    *)
(* index label.  A row holds a cell for every column name the model knows; *)
(* only the cells of the table's columns mean anything.                    *)
(***************************************************************************)
expected_columns ==
    <<"symbol", "name", "sector", "industry", "dividend_yield", "payout",
      "dividend_cagr", "fcf_yield">>

Frac(n, d) == [num |-> n, den |-> d]

Row(idx, sym, nm, sec, ind, y, p, c, f) ==
    [idx |-> idx, symbol |-> sym, name |-> nm, sector |-> sec, industry |-> ind,
     dividend_yield |-> y, payout |-> p, dividend_cagr |-> c, fcf_yield |-> f,
     score |-> 0, ticker |-> "", weight |-> Frac(0, 1)]

Table(cols, rws) == [cols |-> cols, rows |-> rws]

NoTable == Table(<<>>, <<>>)

HasCol(t, c) == \E k \in Indices(t.cols) : t.cols[k] = c

IsValueError(exc) == exc \in {"ValueError", "DataValidationError"}

(***************************************************************************)
(* The idle values of the variables a call does not use.                   *)
(***************************************************************************)
NoRepo == [kind |-> "none", readable |-> TRUE, csv |-> <<>>, data |-> <<>>, strategy |-> "none"]

NoVret == [state |-> "none", exc |-> "none", list |-> <<>>, msg |-> <<>>]

NoRet == [op |-> "none", raised |-> "none", table |-> NoTable, value |-> 0]

Raised(op, exc) == [op |-> op, raised |-> exc, table |-> NoTable, value |-> 0]

Returned(op, t) == [op |-> op, raised |-> "none", table |-> t, value |-> 0]

NoArgs == [op |-> "none"]

\* no provider: the calls of the pipeline construct none
NoProvider ==
    [kind |-> "none", api_key |-> FALSE, env_key |-> FALSE, bad_params |-> FALSE,
     _client |-> 0, created |-> 0, accesses |-> <<>>]

(***************************************************************************)
(* The CSV files and repositories of the model.                            *)
(***************************************************************************)
RawPool ==
    { RawRow("AAA", "Tech", Num(2), Num(50), Num(5), Num(10)),
      RawRow("BBB", "Util", Num(3), Num(40), Num(10), Num(10)),
      RawRow("CCC", "Tech", Num(1), Num(120), Num(-5), Num(-10)),
      RawRow("DDD", "Tech", NotANumber, Num(20), Num(8), Num(5)),
      RawRow("EEE", "Tech", Num(2), Num(250), Num(8), Num(5)),
      RawRow("", "Tech", Num(2), Num(20), Absent, Num(5)),
      RawRow("GGG", "Tech", NaN, Num(20), Num(8), Num(5)) }

\* the rows of the pool that validate and hold numbers only
FiniteRows ==
    {x \in RawPool : FieldErrors(x) = <<>>
                     /\ \A c \in {x.dividend_yield, x.payout, x.dividend_cagr, x.fcf_yield} : c.k = "num"}

CsvFiles == SeqsUpTo(RawPool, MaxRows)

\* a repository that is no CSV file (tests: EmptyRepo, Mock): it returns records
MemoryLists == SeqsUpTo({CompanyData(r) : r \in FiniteRows}, MaxRows - 1)

Repositories ==
    {[kind |-> "csv", readable |-> TRUE, csv |-> f, data |-> <<>>, strategy |-> s] :
        f \in CsvFiles, s \in Strategies}
    \cup {[kind |-> "csv", readable |-> FALSE, csv |-> <<>>, data |-> <<>>,
           strategy |-> "PydanticRowValidation"]}
    \cup {[kind |-> "memory", readable |-> TRUE, csv |-> <<>>, data |-> d, strategy |-> "none"] :
        d \in MemoryLists}

(***************************************************************************)
(* Screener.load_universe over CsvCompanyDataRepository.get_rows and       *)
(* DgiRowValidator.validate_rows.                                          *)
(***************************************************************************)
Init ==
    /\ pc = "load_universe"
    /\ repo \in Repositories
    /\ rows = <<>>
    /\ i = 0
    /\ valid_rows = <<>>
    /\ errors = <<>>
    /\ log = <<>>
    /\ vret = NoVret
    /\ df = NoTable
    /\ args = NoArgs
    /\ ret = NoRet
    /\ provider = NoProvider

\* load_universe up to the repository read: pd.read_csv raises when the file
\* cannot be read, and nothing on the way catches it
GetRowsUnreadable ==
    /\ pc = "load_universe"
    /\ repo.kind = "csv" /\ ~repo.readable
    /\ log' = Append(log, LogEntry("info", <<Line(0, <<"Loading universe from repository">>)>>))
    /\ ret' = Raised("load_universe", "FileNotFoundError")
    /\ pc' = "done"
    /\ UNCHANGED <<repo, rows, i, valid_rows, errors, vret, df, args>>
    /\ UNCHANGED provider

\* ... the CSV is read and validate_rows is entered
GetRowsCsv ==
    /\ pc = "load_universe"
    /\ repo.kind = "csv" /\ repo.readable
    /\ log' = Append(log, LogEntry("info", <<Line(0, <<"Loading universe from repository">>)>>))
    /\ rows' = repo.csv
    /\ i' = 0
    /\ valid_rows' = <<>>
    /\ errors' = <<>>
    /\ pc' = "validate_rows"
    /\ UNCHANGED <<repo, vret, df, args, ret>>
    /\ UNCHANGED provider

\* ... a repository that returns its records itself
GetRowsMemory ==
    /\ pc = "load_universe"
    /\ repo.kind = "memory"
    /\ log' = Append(log, LogEntry("info", <<Line(0, <<"Loading universe from repository">>)>>))
    /\ valid_rows' = repo.data
    /\ pc' = "rows_to_dataframe"
    /\ UNCHANGED <<repo, rows, i, errors, vret, df, args, ret>>
    /\ UNCHANGED provider

\* DgiRowValidator.__init__: required_columns is None, so the column check of
\* the loop is skipped
required_columns == <<>>

MissingColumns(row) ==
    SelectSeq(required_columns, LAMBDA col : ~(col \in DOMAIN row))

\* (mutant) the first row the strategy rejects ends the loop
ValidateRowsRow_Abort ==
    /\ pc = "validate_rows"
    /\ i < Len(rows)
    /\ LET r == StrategyValidate(repo.strategy, rows[i + 1])
       IN  IF r.ok
           THEN /\ valid_rows' = Append(valid_rows, r.value)
                /\ i' = i + 1
                /\ UNCHANGED <<errors, log>>
           ELSE /\ errors' = Append(errors, RowError(i, r))
                /\ log' = Append(log, LogEntry("error", <<RowError(i, r)>>))
                /\ valid_rows' = valid_rows
                /\ i' = Len(rows)
    /\ UNCHANGED <<pc, repo, rows, vret, df, args, ret>>
    /\ UNCHANGED provider

\* (mutant) a rejected row is logged but its message is not kept in errors
ValidateRowsRow_ErrorNotKept ==
    /\ pc = "validate_rows"
    /\ i < Len(rows)
    /\ LET r == StrategyValidate(repo.strategy, rows[i + 1])
       IN  IF r.ok
           THEN /\ valid_rows' = Append(valid_rows, r.value)
                /\ UNCHANGED <<errors, log>>
           ELSE /\ log' = Append(log, LogEntry("error", <<RowError(i, r)>>))
                /\ UNCHANGED <<errors, valid_rows>>
    /\ i' = i + 1
    /\ UNCHANGED <<pc, repo, rows, vret, df, args, ret>>
    /\ UNCHANGED provider

\* one iteration of the loop of validate_rows
ValidateRowsRow ==
    /\ pc = "validate_rows"
    /\ i < Len(rows)
    /\ LET row == rows[i + 1]
           missing == MissingColumns(row)
           r == StrategyValidate(repo.strategy, row)
       IN  IF required_columns # <<>> /\ missing # <<>>
           THEN /\ errors' = Append(errors, Line(RowTag(i), <<"Missing">> \o missing))
                /\ log' = Append(log, LogEntry("error", <<Line(RowTag(i), <<"Missing">> \o missing)>>))
                /\ valid_rows' = valid_rows
           ELSE IF r.ok
           THEN /\ valid_rows' = Append(valid_rows, r.value)
                /\ UNCHANGED <<errors, log>>
           ELSE /\ errors' = Append(errors, RowError(i, r))
                /\ log' = Append(log, LogEntry("error", <<RowError(i, r)>>))
                /\ valid_rows' = valid_rows
    /\ i' = i + 1
    /\ UNCHANGED <<pc, repo, rows, vret, df, args, ret>>
    /\ UNCHANGED provider

\* after the loop: no valid row raises DataValidationError, which get_rows and
\* load_universe let through
ValidateRowsRaise ==
    /\ pc = "validate_rows"
    /\ i = Len(rows)
    /\ valid_rows = <<>>
    /\ log' = Append(log, LogEntry("error", ValidationErrorsMessage(errors)))
    /\ vret' = [state |-> "raised", exc |-> "DataValidationError", list |-> <<>>,
                msg |-> ValidationErrorsMessage(errors)]
    /\ ret' = Raised("load_universe", "DataValidationError")
    /\ pc' = "done"
    /\ UNCHANGED <<repo, rows, i, valid_rows, errors, df, args>>
    /\ UNCHANGED provider

\* after the loop: some valid row; the skipped ones are logged in one warning
ValidateRowsReturn ==
    /\ pc = "validate_rows"
    /\ i = Len(rows)
    /\ valid_rows # <<>>
    /\ log' = IF errors # <<>>
              THEN Append(log, LogEntry("warning", SkippedMessage(errors)))
              ELSE log
    /\ vret' = [state |-> "returned", exc |-> "none", list |-> valid_rows, msg |-> <<>>]
    /\ pc' = "rows_to_dataframe"
    /\ UNCHANGED <<repo, rows, i, valid_rows, errors, df, args, ret>>
    /\ UNCHANGED provider

\* Screener.rows_to_dataframe
RowsToTable(recs) ==
    Table(expected_columns,
          [k \in Indices(recs) |->
              Row(k - 1, recs[k].symbol, recs[k].name, recs[k].sector, recs[k].industry,
                  recs[k].dividend_yield, recs[k].payout_ratio,
                  recs[k].dividend_growth_5y, recs[k].fcf_yield)])

\* (mutant) the df.empty test is missing
rows_to_dataframe_NoEmptyTest(recs) == Returned("load_universe", RowsToTable(recs))

rows_to_dataframe(recs) ==
    IF recs = <<>>
    THEN Raised("load_universe", "ValueError")
    ELSE Returned("load_universe", RowsToTable(recs))

\* the rest of load_universe, with the records get_rows returned
LoadUniverseReturn ==
    /\ pc = "rows_to_dataframe"
    /\ log' = Append(log, LogEntry("info", <<Line(Len(valid_rows), <<"Successfully loaded">>)>>))
    /\ ret' = rows_to_dataframe(valid_rows)
    /\ pc' = "done"
    /\ UNCHANGED <<repo, rows, i, valid_rows, errors, vret, df, args>>
    /\ UNCHANGED provider

Next ==
    \/ GetRowsUnreadable
    \/ GetRowsCsv
    \/ GetRowsMemory
    \/ ValidateRowsRow
    \/ ValidateRowsRaise
    \/ ValidateRowsReturn
    \/ LoadUniverseReturn

Spec == Init /\ [][Next]_vars

(***************************************************************************)
(* Scoring strategies.                                                     *)
(***************************************************************************)
CagrScale == 20
FcfScale == 20
PayoutScale == 100
ScoreDivisor == 3
PayoutPenaltyFrom == 60

\* 1.0 as a normalised term (hundredths) and as a score (three-hundredths)
NormOne == PayoutScale

ScoreOne == ScoreDivisor * NormOne

\* min(max(x / scale, 0.0), 1.0), in hundredths
Normalise(x, scale) == Min(Max(x * (NormOne \div scale), 0), NormOne)

\* (mutant) the composite is returned without the final clamp
DefaultScoring_NoClamp(company) ==
    Normalise(company.dividend_growth_5y, CagrScale)
    + Normalise(company.fcf_yield, FcfScale)
    - Normalise(company.payout_ratio, PayoutScale)

\* DefaultScoring.score: composite / 3.0 turns hundredths into three-hundredths
DefaultScoring(company) ==
    LET cagr_norm == Normalise(company.dividend_growth_5y, CagrScale)
        fcf_norm == Normalise(company.fcf_yield, FcfScale)
        payout_norm == Normalise(company.payout_ratio, PayoutScale)
        composite == cagr_norm + fcf_norm - payout_norm
    IN  Max(0, Min(composite, ScoreOne))

\* Screener.default_score: yield * 1.0 + growth * 0.5 + max(0, payout - 60) * -0.1
default_score(company) ==
    LET yield_score == company.dividend_yield * ScoreOne
        growth_score == company.dividend_growth_5y * (ScoreOne \div 2)
        payout_penalty == Max(0, company.payout_ratio - PayoutPenaltyFrom) * (0 - (ScoreOne \div 10))
    IN  yield_score + growth_score + payout_penalty

\* The Screener's scoring_strategy: None, DefaultScoring(), or another
\* ScoringStrategy, modelled by one that raises for a negative fcf_yield.
ScoringStrategies == {"None", "DefaultScoring", "RaisingScoring"}

StrategyScore(strategy, company) ==
    IF strategy = "RaisingScoring" /\ company.fcf_yield < 0
    THEN [raised |-> TRUE, value |-> 0]
    ELSE [raised |-> FALSE,
          value |-> IF strategy = "None" THEN default_score(company)
                    ELSE DefaultScoring(company)]

(***************************************************************************)
(* DefaultScoring.score on its own, over valid records.                    *)
(***************************************************************************)
ValidCompanies ==
    {[symbol |-> "AAA", name |-> "Corp", sector |-> "Tech", industry |-> "Software",
      dividend_yield |-> y, payout_ratio |-> p, dividend_growth_5y |-> c, fcf_yield |-> f] :
        y \in {YieldMin, 2, YieldMax}, p \in {PayoutMin, 20, 50, PayoutScale, 120, PayoutMax},
        c \in {CagrMin, -5, 0, 5, 10, 15, CagrScale, CagrMax},
        f \in {FcfMin, -10, 0, 10, 15, FcfScale, FcfMax}}

InitScoring ==
    /\ pc = "score"
    /\ repo = NoRepo
    /\ rows = <<>>
    /\ i = 0
    /\ valid_rows = <<>>
    /\ errors = <<>>
    /\ log = <<>>
    /\ vret = NoVret
    /\ df = NoTable
    /\ args \in {[op |-> "score", company |-> c] : c \in ValidCompanies}
    /\ ret = NoRet
    /\ provider = NoProvider

Score ==
    /\ pc = "score"
    /\ ret' = [op |-> "score", raised |-> "none", table |-> NoTable,
               value |-> DefaultScoring(args.company)]
    /\ pc' = "done"
    /\ UNCHANGED <<repo, rows, i, valid_rows, errors, log, vret, df, args>>
    /\ UNCHANGED provider

NextScoring == Score

SpecScoring == InitScoring /\ [][NextScoring]_vars

(***************************************************************************)
(* Filter strategies.                                                      *)
(***************************************************************************)
FilterColumns == <<"dividend_yield", "payout", "dividend_cagr">>

\* (mutant) the yield bound is exclusive
DefaultFilter_StrictYield(t, min_yield, max_payout, min_cagr) ==
    Returned("filter",
             Table(t.cols, SelectSeq(t.rows, LAMBDA r :
                 /\ r.dividend_yield > min_yield
                 /\ r.payout <= max_payout
                 /\ r.dividend_cagr >= min_cagr)))

\* (mutant) max_payout taken for a lower bound of the payout
DefaultFilter_PayoutFloor(t, min_yield, max_payout, min_cagr) ==
    Returned("filter",
             Table(t.cols, SelectSeq(t.rows, LAMBDA r :
                 /\ r.dividend_yield >= min_yield
                 /\ r.payout >= max_payout
                 /\ r.dividend_cagr >= min_cagr)))

\* DefaultFilter.filter: df[mask]; df["payout"] raises KeyError without the column
DefaultFilter(t, min_yield, max_payout, min_cagr) ==
    IF \E k \in Indices(FilterColumns) : ~HasCol(t, FilterColumns[k])
    THEN Raised("filter", "KeyError")
    ELSE Returned("filter",
                  Table(t.cols, SelectSeq(t.rows, LAMBDA r :
                      /\ r.dividend_yield >= min_yield
                      /\ r.payout <= max_payout
                      /\ r.dividend_cagr >= min_cagr)))

\* the caller's table after filter: df[mask] is a new table, nothing is
\* written to df
InputAfter_filter(t, min_yield, max_payout, min_cagr) == t

(***************************************************************************)
(* Screener.add_scores.                                                    *)
(***************************************************************************)
\* row.to_dict(): the cells of the table's columns, under the column names
ToDict(t, r) ==
    [symbol |-> IF HasCol(t, "symbol") THEN r.symbol ELSE "",
     name |-> IF HasCol(t, "name") THEN r.name ELSE "",
     sector |-> IF HasCol(t, "sector") THEN r.sector ELSE "",
     industry |-> IF HasCol(t, "industry") THEN r.industry ELSE "",
     dividend_yield |-> IF HasCol(t, "dividend_yield") THEN Num(r.dividend_yield) ELSE Absent,
     payout |-> IF HasCol(t, "payout") THEN Num(r.payout) ELSE Absent,
     dividend_cagr |-> IF HasCol(t, "dividend_cagr") THEN Num(r.dividend_cagr) ELSE Absent,
     fcf_yield |-> IF HasCol(t, "fcf_yield") THEN Num(r.fcf_yield) ELSE Absent]

\* (mutant) score_row without its try/except: the first failure is the result
score_row_Unguarded(strategy, t, r) ==
    LET d == ToDict(t, r)
    IN  IF FieldErrors(d) # <<>>
        THEN [failed |-> FALSE, raised |-> TRUE, score |-> 0, detail |-> FieldErrors(d)]
        ELSE LET s == StrategyScore(strategy, CompanyData(d))
             IN  [failed |-> FALSE, raised |-> s.raised, score |-> s.value, detail |-> <<>>]

\* score_row: CompanyData(**row.to_dict()), then the strategy or default_score;
\* any exception is logged and the row scores 0.0
score_row(strategy, t, r) ==
    LET d == ToDict(t, r)
    IN  IF FieldErrors(d) # <<>>
        THEN [failed |-> TRUE, raised |-> FALSE, score |-> 0, detail |-> FieldErrors(d)]
        ELSE LET s == StrategyScore(strategy, CompanyData(d))
             IN  IF s.raised
                 THEN [failed |-> TRUE, raised |-> FALSE, score |-> 0, detail |-> <<"score raised">>]
                 ELSE [failed |-> FALSE, raised |-> FALSE, score |-> s.value, detail |-> <<>>]

\* (mutant) the score column is appended even when the table has one
WithScoreColumn_Append(cols) == Append(cols, "score")

\* df["score"] = ...: a new last column, or the old score column overwritten
WithScoreColumn(cols) ==
    IF \E k \in Indices(cols) : cols[k] = "score" THEN cols ELSE Append(cols, "score")

\* (mutant) an empty table is returned as it came, without a score column
add_scores_EmptyUnchanged(strategy, t) ==
    IF t.rows = <<>>
    THEN Returned("add_scores", t)
    ELSE Returned("add_scores",
                  Table(WithScoreColumn(t.cols),
                        [k \in Indices(t.rows) |->
                            [t.rows[k] EXCEPT !.score = score_row(strategy, t, t.rows[k]).score]]))

\* add_scores: the copy of the table with its score column
add_scores(strategy, t) ==
    IF t.rows = <<>>
    THEN Returned("add_scores", Table(WithScoreColumn(t.cols), <<>>))
    ELSE LET scored == [k \in Indices(t.rows) |-> score_row(strategy, t, t.rows[k])]
         IN  IF \E k \in Indices(t.rows) : scored[k].raised
             THEN Raised("add_scores", "Exception")
             ELSE Returned("add_scores",
                           Table(WithScoreColumn(t.cols),
                                 [k \in Indices(t.rows) |->
                                     [t.rows[k] EXCEPT !.score = scored[k].score]]))

\* (mutant) add_scores without df = df.copy(): the score column is written
\* into the caller's table
InputAfter_add_scores_NoCopy(strategy, t) ==
    IF add_scores(strategy, t).raised = "none" THEN add_scores(strategy, t).table ELSE t

\* the caller's table after add_scores: df = df.copy() rebinds the local name,
\* so the writes of the score column go to the copy
InputAfter_add_scores(strategy, t) == t

\* logger.error(f"Error scoring row: {e}"), once per row that failed, in row order
ScoringErrors(strategy, t) ==
    LET failing == SelectSeq([k \in Indices(t.rows) |-> k],
                             LAMBDA k : score_row(strategy, t, t.rows[k]).failed)
    IN  [k \in Indices(failing) |->
            LogEntry("error",
                     <<Line(0, <<"Error scoring row">>
                                \o score_row(strategy, t, t.rows[failing[k]]).detail)>>)]

(***************************************************************************)
(* The stages a caller runs on a table: Screener.apply_filters, then       *)
(* Screener.add_scores, or add_scores alone.                               *)
(***************************************************************************)
DfPool ==
    { <<"AAA", "Tech", 2, 50, 5, 10>>,
      <<"BBB", "Util", 3, 40, 10, 10>>,
      <<"CCC", "Tech", 1, 40, 10, -10>>,
      <<"DDD", "Util", 4, 120, 20, 30>>,
      <<"EEE", "Tech", 3, 40, -5, 0>>,
      <<"ZZZ", "Tech", 2, 250, 8, 5>> }

DropCol(cols, c) == SelectSeq(cols, LAMBDA x : x # c)

StageColumns ==
    {expected_columns, DropCol(expected_columns, "fcf_yield"), DropCol(expected_columns, "payout")}

\* a table of the given columns: the cells of the other columns are blank
MakeTable(cols, picks) ==
    LET t == Table(cols, <<>>)
    IN  Table(cols,
              [k \in Indices(picks) |->
                  Row(k - 1, picks[k][1], "Corp", picks[k][2], "Software", picks[k][3],
                      IF HasCol(t, "payout") THEN picks[k][4] ELSE 0, picks[k][5],
                      IF HasCol(t, "fcf_yield") THEN picks[k][6] ELSE 0)])

StageTables == {MakeTable(cols, picks) : cols \in StageColumns, picks \in SeqsUpTo(DfPool, MaxRows)}

MinYields == {0, 2}

MaxPayouts == {50, 100}

MinCagrs == {0, 5}

InitStages ==
    /\ pc = "table"
    /\ repo = NoRepo
    /\ rows = <<>>
    /\ i = 0
    /\ valid_rows = <<>>
    /\ errors = <<>>
    /\ log = <<>>
    /\ vret = NoVret
    /\ df \in StageTables
    /\ args = NoArgs
    /\ ret = NoRet
    /\ provider = NoProvider

\* Screener.apply_filters(df, min_yield, max_payout, min_cagr) of a Screener
\* built with the default filter strategy
ApplyFilters(min_yield, max_payout, min_cagr) ==
    /\ pc = "table"
    /\ args' = [op |-> "apply_filters", min_yield |-> min_yield, max_payout |-> max_payout,
                min_cagr |-> min_cagr, input |-> df]
    /\ df' = InputAfter_filter(df, min_yield, max_payout, min_cagr)
    /\ log' = log \o <<LogEntry("info", <<Line(0, <<"Applying filters">>)>>)>>
                  \o (IF DefaultFilter(df, min_yield, max_payout, min_cagr).raised = "none"
                      THEN <<LogEntry("info", <<Line(Len(DefaultFilter(df, min_yield, max_payout, min_cagr).table.rows), <<"Filtered to">>)>>)>>
                      ELSE <<>>)
    /\ ret' = DefaultFilter(df, min_yield, max_payout, min_cagr)
    /\ pc' = IF ret'.raised = "none" THEN "filtered" ELSE "done"
    /\ UNCHANGED <<repo, rows, i, valid_rows, errors, vret>>
    /\ UNCHANGED provider

\* Screener.add_scores(df) of a Screener built with the given scoring strategy,
\* on the caller's table or on the table apply_filters returned
AddScores(strategy) ==
    /\ pc \in {"table", "filtered"}
    /\ LET input == IF pc = "table" THEN df ELSE ret.table
       IN  /\ df' = InputAfter_add_scores(strategy, input)
           /\ args' = [op |-> "add_scores", scoring_strategy |-> strategy, input |-> input]
           /\ ret' = add_scores(strategy, input)
           /\ log' = log \o <<LogEntry("info", <<Line(0, <<"Scoring DataFrame rows">>)>>)>>
                         \o ScoringErrors(strategy, input)
    /\ pc' = "done"
    /\ UNCHANGED <<repo, rows, i, valid_rows, errors, vret>>
    /\ UNCHANGED provider

NextStages ==
    \/ \E min_yield \in MinYields, max_payout \in MaxPayouts, min_cagr \in MinCagrs :
          ApplyFilters(min_yield, max_payout, min_cagr)
    \/ \E strategy \in ScoringStrategies : AddScores(strategy)

SpecStages == InitStages /\ [][NextStages]_vars

(***************************************************************************)
(* portfolio.build and the weighting strategies.                           *)
(***************************************************************************)
RECURSIVE SumScores(_)
SumScores(rws) == IF rws = <<>> THEN 0 ELSE rws[1].score + SumScores(Tail(rws))

\* EqualWeighting.compute_weights
EqualWeighting(rws) ==
    LET n == Len(rws)
    IN  [k \in Indices(rws) |-> [rws[k] EXCEPT !.weight = IF n > 0 THEN Frac(1, n) ELSE Frac(0, 1)]]

\* (mutant) the total_score == 0 test is missing
ScoreWeighting_NoZeroTest(rws) ==
    [k \in Indices(rws) |-> [rws[k] EXCEPT !.weight = Frac(rws[k].score, SumScores(rws))]]

\* ScoreWeighting.compute_weights
ScoreWeighting(rws) ==
    LET total_score == SumScores(rws)
    IN  IF total_score = 0
        THEN [k \in Indices(rws) |->
                 [rws[k] EXCEPT !.weight = IF Len(rws) > 0 THEN Frac(1, Len(rws)) ELSE Frac(0, 1)]]
        ELSE [k \in Indices(rws) |-> [rws[k] EXCEPT !.weight = Frac(rws[k].score, total_score)]]

\* df.sort_values("score", ascending=False): the default sort is not stable, so
\* every descending arrangement of the rows is a possible result
SortValues(rws) ==
    LET n == Len(rws)
        perms == {f \in [1..n -> 1..n] : \A a, b \in 1..n : a # b => f[a] # f[b]}
    IN  {[k \in 1..n |-> rws[f[k]]] :
            f \in {g \in perms : \A k \in 1..(n - 1) : rws[g[k]].score >= rws[g[k + 1]].score}}

\* DataFrame.head(n): the first n rows; for a negative n, all but the last -n
HeadRows(rws, n) ==
    IF n >= 0 THEN SubSeq(rws, 1, Min(n, Len(rws)))
    ELSE SubSeq(rws, 1, Max(0, Len(rws) + n))

\* weighted[[ticker_col, "weight", "score"]].rename(columns={ticker_col: "ticker"})
PortfolioRow(r, ticker_col) ==
    [Row(r.idx, "", "", "", "", 0, 0, 0, 0) EXCEPT
        !.ticker = r[ticker_col], !.weight = r.weight, !.score = r.score]

\* (mutant) a weighting that is not "score" is taken for "equal"
build_AnyWeighting(t, top_n, weighting, ticker_col, sorted) ==
    IF top_n > Len(t.rows) THEN Raised("build", "ValueError")
    ELSE IF ~HasCol(t, "score") THEN Raised("build", "ValueError")
    ELSE LET col == IF ticker_col # "" THEN ticker_col
                    ELSE IF HasCol(t, "ticker") THEN "ticker" ELSE "symbol"
         IN  IF ~HasCol(t, col) THEN Raised("build", "ValueError")
             ELSE LET top == HeadRows(sorted, top_n)
                      weighted == IF weighting = "score" THEN ScoreWeighting(top)
                                  ELSE EqualWeighting(top)
                  IN  Returned("build",
                               Table(<<"ticker", "weight", "score">>,
                                     [k \in Indices(weighted) |-> PortfolioRow(weighted[k], col)]))

\* build(df, top_n, weighting, ticker_col); sorted is what sort_values returned
build(t, top_n, weighting, ticker_col, sorted) ==
    IF top_n > Len(t.rows) THEN Raised("build", "ValueError")
    ELSE IF ~HasCol(t, "score") THEN Raised("build", "ValueError")
    ELSE LET col == IF ticker_col # "" THEN ticker_col
                    ELSE IF HasCol(t, "ticker") THEN "ticker" ELSE "symbol"
         IN  IF ~HasCol(t, col) THEN Raised("build", "ValueError")
             ELSE LET top == HeadRows(sorted, top_n)
                  IN  IF weighting \notin {"equal", "score"} THEN Raised("build", "ValueError")
                      ELSE LET weighted == IF weighting = "equal" THEN EqualWeighting(top)
                                           ELSE ScoreWeighting(top)
                           IN  Returned("build",
                                        Table(<<"ticker", "weight", "score">>,
                                              [k \in Indices(weighted) |->
                                                  PortfolioRow(weighted[k], col)]))

\* the caller's table after build: sort_values, head and copy make new
\* tables, and compute_weights writes the weight column into its own copy
InputAfter_build(t, top_n, weighting, ticker_col, sorted) == t

\* the scored tables a caller passes to build
\* scores in three-hundredths: 30, 60, 90 are in the ratio of the tests' 10, 20, 30
BuildPool == { <<"AAA", 60>>, <<"BBB", 90>>, <<"CCC", 0>>, <<"DDD", 30>>, <<"EEE", -60>> }

BuildColumns ==
    { Append(expected_columns, "score"),
      expected_columns,
      <<"ticker", "name", "score">>,
      <<"ticker", "symbol", "score">>,
      <<"name", "score">> }

MakeScoredTable(cols, picks) ==
    LET t == Table(cols, <<>>)
    IN  Table(cols,
              [k \in Indices(picks) |->
                  [Row(k - 1,
                       IF ~HasCol(t, "symbol") THEN "" ELSE IF HasCol(t, "ticker") THEN "SYM"
                       ELSE picks[k][1],
                       "Corp",
                       IF HasCol(t, "sector") THEN "Tech" ELSE "",
                       IF HasCol(t, "industry") THEN "Software" ELSE "",
                       0, 0, 0, 0)
                   EXCEPT !.ticker = IF HasCol(t, "ticker") THEN picks[k][1] ELSE "",
                          !.score = IF HasCol(t, "score") THEN picks[k][2] ELSE 0]])

BuildTables ==
    {MakeScoredTable(cols, picks) : cols \in BuildColumns, picks \in SeqsUpTo(BuildPool, MaxRows)}

TopNs == (0 - 1)..(MaxRows + 1)

Weightings == {"equal", "score", "invalid"}

\* ticker_col: not given (None), a column of the table, a column it lacks
TickerCols == {"", "name", "isin"}

InitBuild ==
    /\ pc = "table"
    /\ repo = NoRepo
    /\ rows = <<>>
    /\ i = 0
    /\ valid_rows = <<>>
    /\ errors = <<>>
    /\ log = <<>>
    /\ vret = NoVret
    /\ df \in BuildTables
    /\ args = NoArgs
    /\ ret = NoRet
    /\ provider = NoProvider

Build(top_n, weighting, ticker_col, sorted) ==
    /\ pc = "table"
    /\ args' = [op |-> "build", top_n |-> top_n, weighting |-> weighting,
                ticker_col |-> ticker_col, input |-> df]
    /\ df' = InputAfter_build(df, top_n, weighting, ticker_col, sorted)
    /\ ret' = build(df, top_n, weighting, ticker_col, sorted)
    /\ log' = IF ret'.raised = "none" THEN log
              ELSE Append(log, LogEntry("error", <<Line(0, <<"build">>)>>))
    /\ pc' = "done"
    /\ UNCHANGED <<repo, rows, i, valid_rows, errors, vret>>
    /\ UNCHANGED provider

NextBuild ==
    \E sorted \in SortValues(df.rows) :
        \E top_n \in TopNs, weighting \in Weightings, ticker_col \in TickerCols :
            Build(top_n, weighting, ticker_col, sorted)

SpecBuild == InitBuild /\ [][NextBuild]_vars

(***************************************************************************)
(* The other filter strategies, and a Screener built with any of them.     *)
(* A strategy object is [kind, allowed_sectors, top_n, parts]: parts holds *)
(* the base filter of a TopNFilter and the filters of a CompositeFilter.   *)
(* A strategy yields the set of results it may return: a sort of equal     *)
(* scores may leave them in any order.                                     *)
(***************************************************************************)
StrategyDefault == [kind |-> "DefaultFilter", allowed_sectors |-> {}, top_n |-> 0, parts |-> <<>>]

StrategySector(allowed) ==
    [kind |-> "SectorFilter", allowed_sectors |-> allowed, top_n |-> 0, parts |-> <<>>]

\* TopNFilter(top_n, base_filter): base_filter or DefaultFilter()
StrategyTopN(n, base) ==
    [kind |-> "TopNFilter", allowed_sectors |-> {}, top_n |-> n, parts |-> <<base>>]

StrategyComposite(filters) ==
    [kind |-> "CompositeFilter", allowed_sectors |-> {}, top_n |-> 0, parts |-> filters]

\* (mutant) SectorFilter without the test for the sector column
SectorFilter_NoColumnTest(allowed_sectors, t, min_yield, max_payout, min_cagr) ==
    LET base_filtered == DefaultFilter(t, min_yield, max_payout, min_cagr)
    IN  IF base_filtered.raised # "none" THEN base_filtered
        ELSE IF ~HasCol(t, "sector") THEN Raised("filter", "KeyError")
        ELSE Returned("filter",
                      Table(t.cols, SelectSeq(base_filtered.table.rows,
                                              LAMBDA r : r.sector \in allowed_sectors)))

\* SectorFilter.filter: the criteria, then sector.isin(allowed_sectors) when
\* the table has a sector column
SectorFilter(allowed_sectors, t, min_yield, max_payout, min_cagr) ==
    LET base_filtered == DefaultFilter(t, min_yield, max_payout, min_cagr)
    IN  IF base_filtered.raised # "none" THEN base_filtered
        ELSE IF HasCol(t, "sector")
        THEN Returned("filter",
                      Table(t.cols, SelectSeq(base_filtered.table.rows,
                                              LAMBDA r : r.sector \in allowed_sectors)))
        ELSE base_filtered

\* DataFrame.nlargest(n, "score"), keep="first": nothing for n <= 0; the whole
\* table sorted when n >= len; else the n largest, ties in table order
NLargest(rws, n) ==
    IF n <= 0 THEN {<<>>}
    ELSE IF n >= Len(rws) THEN SortValues(rws)
    ELSE {HeadRows(s, n) : s \in {x \in SortValues(rws) :
              \A k \in 1..(Len(x) - 1) : x[k].score = x[k + 1].score => x[k].idx < x[k + 1].idx}}

\* (mutant) TopNFilter that pads its result with the first row of its input
TopNFilter_Pad(top_n, filtered) ==
    IF filtered.raised # "none" \/ filtered.table.rows = <<>> THEN {filtered}
    ELSE {Returned("filter", Table(filtered.table.cols,
                                   Append(filtered.table.rows, filtered.table.rows[1])))}

\* TopNFilter.filter after its base filter returned filtered
TopNFilter(top_n, filtered) ==
    IF filtered.raised # "none" THEN {filtered}
    ELSE IF HasCol(filtered.table, "score") /\ Len(filtered.table.rows) > 0
    THEN {Returned("filter", Table(filtered.table.cols, x)) :
             x \in NLargest(filtered.table.rows, top_n)}
    ELSE {Returned("filter", Table(filtered.table.cols, HeadRows(filtered.table.rows, top_n)))}

RECURSIVE FilterResults(_, _, _)
RECURSIVE CompositeFilter(_, _, _)
\* CompositeFilter.filter: the filters in sequence, each on the result before
CompositeFilter(filters, t, th) ==
    IF filters = <<>> THEN {Returned("filter", t)}
    ELSE UNION {IF r.raised # "none" THEN {r}
                ELSE FilterResults(filters[Len(filters)], r.table, th) :
                    r \in CompositeFilter(SubSeq(filters, 1, Len(filters) - 1), t, th)}

\* filter_strategy.filter(df, min_yield, max_payout, min_cagr), th the thresholds
FilterResults(fs, t, th) ==
    IF fs.kind = "DefaultFilter" THEN {DefaultFilter(t, th[1], th[2], th[3])}
    ELSE IF fs.kind = "SectorFilter"
    THEN {SectorFilter(fs.allowed_sectors, t, th[1], th[2], th[3])}
    ELSE IF fs.kind = "TopNFilter"
    THEN UNION {TopNFilter(fs.top_n, r) : r \in FilterResults(fs.parts[1], t, th)}
    ELSE CompositeFilter(fs.parts, t, th)

\* the tables handed to the strategies: rows as <<symbol, sector, yield,
\* payout, cagr, fcf, score>>, with and without a score or a sector column
FilterPool ==
    { <<"AAA", "Tech", 2, 50, 5, 10, 60>>,
      <<"BBB", "Util", 3, 40, 10, 10, 90>>,
      <<"CCC", "Tech", 1, 40, 10, -10, 90>>,
      <<"DDD", "Util", 4, 120, 20, 30, 30>> }

FilterTableColumns ==
    {expected_columns, Append(expected_columns, "score"), DropCol(expected_columns, "sector")}

MakeFilterTable(cols, picks) ==
    LET t == Table(cols, <<>>)
    IN  Table(cols,
              [k \in Indices(picks) |->
                  [Row(k - 1, picks[k][1], "Corp",
                       IF HasCol(t, "sector") THEN picks[k][2] ELSE "", "Software",
                       picks[k][3], picks[k][4], picks[k][5], picks[k][6])
                   EXCEPT !.score = IF HasCol(t, "score") THEN picks[k][7] ELSE 0]])

FilterTables ==
    {MakeFilterTable(cols, picks) : cols \in FilterTableColumns, picks \in SeqsUpTo(FilterPool, MaxRows)}

FilterStrategies ==
    {StrategyDefault, StrategySector({"Tech"}), StrategySector({}),
     StrategyTopN(1, StrategySector({"Util"})),
     StrategyComposite(<<>>),
     StrategyComposite(<<StrategyDefault, StrategySector({"Tech"})>>),
     StrategyComposite(<<StrategyTopN(1, StrategyDefault), StrategySector({"Util"})>>)}
    \cup {StrategyTopN(n, StrategyDefault) : n \in (0 - 1)..2}

FilterThresholds == { <<0, 100, 0>>, <<2, 100, 0>>, <<2, 50, 5>> }

InitFilters ==
    /\ pc = "table"
    /\ repo = NoRepo
    /\ rows = <<>>
    /\ i = 0
    /\ valid_rows = <<>>
    /\ errors = <<>>
    /\ log = <<>>
    /\ vret = NoVret
    /\ df \in FilterTables
    /\ args = NoArgs
    /\ ret = NoRet
    /\ provider = NoProvider

\* Screener.apply_filters(df, min_yield, max_payout, min_cagr) of a Screener
\* built with filter_strategy = fs
ApplyFiltersWith(fs, th) ==
    /\ pc = "table"
    /\ \E r \in FilterResults(fs, df, th) :
          /\ ret' = r
          /\ log' = log \o <<LogEntry("info", <<Line(0, <<"Applying filters">>)>>)>>
                        \o (IF r.raised = "none"
                            THEN <<LogEntry("info", <<Line(Len(r.table.rows), <<"Filtered to">>)>>)>>
                            ELSE <<>>)
          /\ pc' = IF r.raised = "none" THEN "filtered" ELSE "done"
    /\ args' = [op |-> "apply_filters", filter_strategy |-> fs, min_yield |-> th[1],
                max_payout |-> th[2], min_cagr |-> th[3], input |-> df]
    /\ df' = InputAfter_filter(df, th[1], th[2], th[3])
    /\ UNCHANGED <<repo, rows, i, valid_rows, errors, vret>>
    /\ UNCHANGED provider

NextFilters == \E fs \in FilterStrategies, th \in FilterThresholds : ApplyFiltersWith(fs, th)

SpecFilters == InitFilters /\ [][NextFilters]_vars

(***************************************************************************)
(* Each Screener stage called a second time: load_universe again on the    *)
(* same repository, apply_filters and add_scores on their own result.      *)
(***************************************************************************)
InitTwice == Init \/ InitFilters

\* a second load_universe() on the same Screener: the Screener holds the
\* repository and no result of the first call
LoadUniverseAgain ==
    /\ pc = "done"
    /\ ret.op = "load_universe"
    /\ args = NoArgs
    /\ args' = [op |-> "load_universe_again", first |-> ret]
    /\ ret' = NoRet
    /\ vret' = NoVret
    /\ pc' = "load_universe"
    /\ UNCHANGED <<repo, rows, i, valid_rows, errors, log, df>>
    /\ UNCHANGED provider

\* apply_filters, same thresholds, on the table apply_filters returned
ApplyFiltersAgain ==
    /\ pc = "filtered"
    /\ args.op = "apply_filters"
    /\ LET th == <<args.min_yield, args.max_payout, args.min_cagr>>
       IN  /\ \E r \in FilterResults(args.filter_strategy, ret.table, th) :
                 /\ ret' = r
                 /\ log' = log \o <<LogEntry("info", <<Line(0, <<"Applying filters">>)>>)>>
                               \o (IF r.raised = "none"
                                   THEN <<LogEntry("info", <<Line(Len(r.table.rows), <<"Filtered to">>)>>)>>
                                   ELSE <<>>)
           /\ df' = InputAfter_filter(ret.table, th[1], th[2], th[3])
    /\ args' = [op |-> "apply_filters_again", filter_strategy |-> args.filter_strategy,
                min_yield |-> args.min_yield, max_payout |-> args.max_payout,
                min_cagr |-> args.min_cagr, input |-> ret.table, first |-> ret]
    /\ pc' = "done"
    /\ UNCHANGED <<repo, rows, i, valid_rows, errors, vret>>
    /\ UNCHANGED provider

\* add_scores on the table add_scores returned, same Screener
AddScoresAgain ==
    /\ pc = "done"
    /\ args.op = "add_scores"
    /\ ret.raised = "none"
    /\ df' = InputAfter_add_scores(args.scoring_strategy, ret.table)
    /\ args' = [op |-> "add_scores_again", scoring_strategy |-> args.scoring_strategy,
                input |-> ret.table, first |-> ret]
    /\ ret' = add_scores(args.scoring_strategy, ret.table)
    /\ log' = log \o <<LogEntry("info", <<Line(0, <<"Scoring DataFrame rows">>)>>)>>
                  \o ScoringErrors(args.scoring_strategy, ret.table)
    /\ pc' = "again"
    /\ UNCHANGED <<repo, rows, i, valid_rows, errors, vret>>
    /\ UNCHANGED provider

NextTwice ==
    \/ Next
    \/ LoadUniverseAgain
    \/ \E fs \in FilterStrategies, th \in FilterThresholds : ApplyFiltersWith(fs, th)
    \/ ApplyFiltersAgain
    \/ \E strategy \in ScoringStrategies : AddScores(strategy)
    \/ AddScoresAgain

SpecTwice == InitTwice /\ [][NextTwice]_vars

(***************************************************************************)
(* The whole pipeline on one Screener: the table load_universe returned,   *)
(* apply_filters (or not), add_scores, then portfolio.build on the scored  *)
(* table.                                                                  *)
(***************************************************************************)
\* the records of the universe: the valid rows of the CSV pool, and one that
\* passes the default thresholds with a payout of 100
UniverseRecords ==
    {CompanyData(r) : r \in FiniteRows \cup {RawRow("FFF", "Util", Num(0), Num(100), Num(0), Num(5))}}

\* what load_universe returns: rows_to_dataframe of a non-empty list of records
UniverseTables == {RowsToTable(recs) : recs \in SeqsUpTo(UniverseRecords, MaxRows) \ {<<>>}}

\* apply_filters thresholds: the defaults of the signature, and tighter ones
Thresholds == { <<0, 100, 0>>, <<2, 50, 5>> }

InitPipeline ==
    /\ pc = "table"
    /\ repo = NoRepo
    /\ rows = <<>>
    /\ i = 0
    /\ valid_rows = <<>>
    /\ errors = <<>>
    /\ log = <<>>
    /\ vret = NoVret
    /\ df \in UniverseTables
    /\ args = NoArgs
    /\ ret = NoRet
    /\ provider = NoProvider

\* build(scored, top_n, weighting) on the table add_scores returned
BuildScored(top_n, weighting, sorted) ==
    /\ pc = "done"
    /\ ret.op = "add_scores"
    /\ ret.raised = "none"
    /\ df' = InputAfter_build(ret.table, top_n, weighting, "", sorted)
    /\ args' = [op |-> "build", top_n |-> top_n, weighting |-> weighting, ticker_col |-> "",
                input |-> ret.table]
    /\ ret' = build(ret.table, top_n, weighting, "", sorted)
    /\ log' = IF ret'.raised = "none" THEN log
              ELSE Append(log, LogEntry("error", <<Line(0, <<"build">>)>>))
    /\ pc' = "built"
    /\ UNCHANGED <<repo, rows, i, valid_rows, errors, vret>>
    /\ UNCHANGED provider

NextPipeline ==
    \/ \E th \in Thresholds : ApplyFilters(th[1], th[2], th[3])
    \/ \E strategy \in ScoringStrategies : AddScores(strategy)
    \/ \E sorted \in SortValues(ret.table.rows) :
          \E top_n \in TopNs, weighting \in Weightings : BuildScored(top_n, weighting, sorted)

SpecPipeline == InitPipeline /\ [][NextPipeline]_vars

(***************************************************************************)
(* The agent tool screen_dividends: a Screener over the CSV file of the    *)
(* default data path, with PydanticRowValidation and DefaultScoring; the   *)
(* whole body runs inside try/except Exception.                            *)
(***************************************************************************)
\* one result mapping of the tool, from a row of the scored table
ResultMapping(r) ==
    [symbol |-> r.symbol, name |-> r.name, sector |-> r.sector, industry |-> r.industry,
     dividend_yield |-> r.dividend_yield, payout_ratio |-> r.payout,
     dividend_growth_5y |-> r.dividend_cagr, fcf_yield |-> r.fcf_yield, score |-> r.score]

\* {"error": f"Screening failed: {e!s}"}
ErrorMapping(exc) == [error |-> <<"Screening failed", exc>>]

ToolReturned(list) ==
    [op |-> "screen_dividends", raised |-> "none", table |-> NoTable, value |-> list]

ToolRaised(exc) ==
    [op |-> "screen_dividends", raised |-> exc, table |-> NoTable, value |-> <<>>]

\* the exception the body of the try block ends with, "none" when it has none
ToolFailure(loaded, min_yield, max_payout, min_cagr) ==
    IF loaded.raised # "none" THEN loaded.raised
    ELSE LET filtered == DefaultFilter(loaded.table, min_yield, max_payout, min_cagr)
         IN  IF filtered.raised # "none" THEN filtered.raised
             ELSE add_scores("DefaultScoring", filtered.table).raised

\* (mutant) the handler catches ValueError only
screen_dividends_CatchValueError(loaded, min_yield, max_payout, min_cagr, top_n) ==
    LET failure == ToolFailure(loaded, min_yield, max_payout, min_cagr)
        scored == add_scores("DefaultScoring",
                             DefaultFilter(loaded.table, min_yield, max_payout, min_cagr).table).table
    IN  IF failure # "none"
        THEN IF IsValueError(failure) THEN {ToolReturned(<<ErrorMapping(failure)>>)}
             ELSE {ToolRaised(failure)}
        ELSE IF scored.rows = <<>> THEN {ToolReturned(<<>>)}
        ELSE {ToolReturned([k \in Indices(HeadRows(sorted, top_n)) |->
                               ResultMapping(HeadRows(sorted, top_n)[k])]) :
                 sorted \in SortValues(scored.rows)}

\* screen_dividends after load_universe has returned or raised: the possible
\* results (the sort leaves the order of equal scores open)
screen_dividends(loaded, min_yield, max_payout, min_cagr, top_n) ==
    LET failure == ToolFailure(loaded, min_yield, max_payout, min_cagr)
        scored == add_scores("DefaultScoring",
                             DefaultFilter(loaded.table, min_yield, max_payout, min_cagr).table).table
    IN  IF failure # "none" THEN {ToolReturned(<<ErrorMapping(failure)>>)}
        ELSE IF scored.rows = <<>> THEN {ToolReturned(<<>>)}
        ELSE {ToolReturned([k \in Indices(HeadRows(sorted, top_n)) |->
                               ResultMapping(HeadRows(sorted, top_n)[k])]) :
                 sorted \in SortValues(scored.rows)}

\* what apply_filters and add_scores log inside the tool
ToolLog(loaded, min_yield, max_payout, min_cagr) ==
    IF loaded.raised # "none" THEN <<>>
    ELSE LET filtered == DefaultFilter(loaded.table, min_yield, max_payout, min_cagr)
         IN  <<LogEntry("info", <<Line(0, <<"Applying filters">>)>>)>>
             \o (IF filtered.raised # "none" THEN <<>>
                 ELSE <<LogEntry("info", <<Line(Len(filtered.table.rows), <<"Filtered to">>)>>),
                        LogEntry("info", <<Line(0, <<"Scoring DataFrame rows">>)>>)>>
                      \o ScoringErrors("DefaultScoring", filtered.table))

\* top_n values of a call: the default 10, small ones, zero and a negative one
ToolTopNs == {-1, 0, 1, 2, 10}

\* the repository the tool builds: the CSV file of the data path, whatever it
\* holds, with DgiRowValidator(PydanticRowValidation(CompanyData))
ToolRepositories ==
    {r \in Repositories : r.kind = "csv" /\ r.strategy = "PydanticRowValidation"}

InitTool ==
    /\ pc = "load_universe"
    /\ repo \in ToolRepositories
    /\ rows = <<>>
    /\ i = 0
    /\ valid_rows = <<>>
    /\ errors = <<>>
    /\ log = <<>>
    /\ vret = NoVret
    /\ df = NoTable
    /\ args = NoArgs
    /\ ret = NoRet
    /\ provider = NoProvider

\* the tool from the return (or raise) of load_universe to its own return
ScreenDividends(min_yield, max_payout, min_cagr, top_n) ==
    /\ pc = "done"
    /\ ret.op = "load_universe"
    /\ args' = [op |-> "screen_dividends", min_yield |-> min_yield, max_payout |-> max_payout,
                min_cagr |-> min_cagr, top_n |-> top_n, loaded |-> ret]
    /\ ret' \in screen_dividends(ret, min_yield, max_payout, min_cagr, top_n)
    /\ log' = log \o ToolLog(ret, min_yield, max_payout, min_cagr)
    /\ pc' = "returned"
    /\ UNCHANGED <<repo, rows, i, valid_rows, errors, vret, df>>
    /\ UNCHANGED provider

NextTool ==
    \/ GetRowsUnreadable
    \/ GetRowsCsv
    \/ ValidateRowsRow
    \/ ValidateRowsRaise
    \/ ValidateRowsReturn
    \/ LoadUniverseReturn
    \/ \E th \in Thresholds, top_n \in ToolTopNs : ScreenDividends(th[1], th[2], th[3], top_n)

SpecTool == InitTool /\ [][NextTool]_vars

(***************************************************************************)
(* load_universe as one call, for the callers that run the whole pipeline  *)
(* in one step.                                                            *)
(***************************************************************************)
\* validate_rows: the records of the rows the strategy accepts, in row order,
\* or DataValidationError when there is none
validate_rows(strategy, rws) ==
    LET results == [k \in Indices(rws) |-> StrategyValidate(strategy, rws[k])]
        good == SelectSeq(results, LAMBDA r : r.ok)
    IN  IF good = <<>>
        THEN [raised |-> "DataValidationError", list |-> <<>>]
        ELSE [raised |-> "none", list |-> [k \in Indices(good) |-> good[k].value]]

\* load_universe: get_rows of the repository, then rows_to_dataframe
load_universe(r) ==
    IF r.kind = "memory" THEN rows_to_dataframe(r.data)
    ELSE IF ~r.readable THEN Raised("load_universe", "FileNotFoundError")
    ELSE LET v == validate_rows(r.strategy, r.csv)
         IN  IF v.raised # "none" THEN Raised("load_universe", v.raised)
             ELSE rows_to_dataframe(v.list)

\* the error lines validate_rows collects, in row order
RowErrors(strategy, rws) ==
    LET bad == SelectSeq([k \in Indices(rws) |-> k],
                         LAMBDA k : ~StrategyValidate(strategy, rws[k]).ok)
    IN  [k \in Indices(bad) |-> RowError(bad[k] - 1, StrategyValidate(strategy, rws[bad[k]]))]

\* what load_universe and validate_rows log during the call
LoadLog(r) ==
    <<LogEntry("info", <<Line(0, <<"Loading universe from repository">>)>>)>>
    \o (IF r.kind = "memory"
        THEN <<LogEntry("info", <<Line(Len(r.data), <<"Successfully loaded">>)>>)>>
        ELSE IF ~r.readable THEN <<>>
        ELSE LET errs == RowErrors(r.strategy, r.csv)
                 v == validate_rows(r.strategy, r.csv)
             IN  [k \in Indices(errs) |-> LogEntry("error", <<errs[k]>>)]
                 \o (IF v.raised # "none"
                     THEN <<LogEntry("error", ValidationErrorsMessage(errs))>>
                     ELSE (IF errs # <<>> THEN <<LogEntry("warning", SkippedMessage(errs))>>
                           ELSE <<>>)
                          \o <<LogEntry("info", <<Line(Len(v.list), <<"Successfully loaded">>)>>)>>))

(***************************************************************************)
(* The command line: the commands screen and build-portfolio of cli.py,    *)
(* each run as a process with an exit code, a standard output and a        *)
(* standard error.                                                         *)
(***************************************************************************)
\* DgiRowValidator(*given): __init__ has one required parameter, strategy
DgiRowValidator(given) ==
    IF Len(given) # 1 THEN [raised |-> "TypeError", strategy |-> "none"]
    ELSE [raised |-> "none", strategy |-> given[1]]

\* a line written by typer.echo, or the traceback of an uncaught exception
EchoLine(prefix, text) == [prefix |-> prefix, text |-> text]

\* the finished process
Completed(op, exc, code, t, stdout, stderr) ==
    [op |-> op, raised |-> exc, table |-> t, value |-> code, stdout |-> stdout,
     stderr |-> stderr]

\* the repository a command builds around the validator it constructed
CliRepository(file, validator) == [file EXCEPT !.strategy = validator.strategy]

\* the try block of screen (lines 59-102): how it ends.  typer.Exit is an
\* Exception (click's Exit extends RuntimeError), raised with its code.
ScreenBody(file, min_yield, max_payout, min_cagr, rich) ==
    LET validator == DgiRowValidator(<<>>)
        loaded == load_universe(CliRepository(file, validator))
        filtered == DefaultFilter(loaded.table, min_yield, max_payout, min_cagr)
        scored == add_scores("DefaultScoring", filtered.table)
        Ends(exc, code, t, stdout, stderr) ==
            [exc |-> exc, code |-> code, table |-> t, stdout |-> stdout, stderr |-> stderr]
    IN  IF ~rich
        THEN {Ends("Exit", 1, NoTable, <<>>, <<EchoLine("[ERROR]", "rich is required")>>)}
        ELSE IF validator.raised # "none" THEN {Ends(validator.raised, 0, NoTable, <<>>, <<>>)}
        ELSE IF loaded.raised # "none" THEN {Ends(loaded.raised, 0, NoTable, <<>>, <<>>)}
        ELSE IF filtered.raised # "none" THEN {Ends(filtered.raised, 0, NoTable, <<>>, <<>>)}
        ELSE IF scored.raised # "none" THEN {Ends(scored.raised, 0, NoTable, <<>>, <<>>)}
        ELSE IF scored.table.rows = <<>>
        THEN {Ends("Exit", 0, NoTable, <<EchoLine("[INFO]", "No stocks matched")>>, <<>>)}
        ELSE {Ends("none", 0, Table(scored.table.cols, sorted),
                   <<EchoLine("", "DGI Screen Results")>>, <<>>) :
                 sorted \in SortValues(scored.table.rows)}

\* the command screen: the threshold check, then the try block; any
\* Exception that ends the block is echoed with [ERROR] and the exit code is 1
screen(file, min_yield, max_payout, min_cagr, rich) ==
    IF min_yield < 0 \/ max_payout < 0 \/ min_cagr < 0
    THEN {Completed("screen", "none", 1, NoTable, <<>>,
                    <<EchoLine("[ERROR]", "must all be non-negative")>>)}
    ELSE {IF body.exc # "none"
          THEN Completed("screen", "none", 1, NoTable, body.stdout,
                         Append(body.stderr,
                                EchoLine("[ERROR]", IF body.exc = "Exit" THEN "" ELSE body.exc)))
          ELSE Completed("screen", "none", 0, body.table, body.stdout, body.stderr) :
             body \in ScreenBody(file, min_yield, max_payout, min_cagr, rich)}

\* the command build-portfolio: no threshold check and no try block, so an
\* exception leaves the command; the interpreter prints the traceback and the
\* exit code is 1
build_portfolio(file, top_n, weighting, min_yield, max_payout, min_cagr) ==
    LET validator == DgiRowValidator(<<>>)
        loaded == load_universe(CliRepository(file, validator))
        filtered == DefaultFilter(loaded.table, min_yield, max_payout, min_cagr)
        scored == add_scores("DefaultScoring", filtered.table)
        Uncaught(exc) ==
            {Completed("build_portfolio", exc, 1, NoTable, <<>>, <<EchoLine("Traceback", exc)>>)}
    IN  IF validator.raised # "none" THEN Uncaught(validator.raised)
        ELSE IF loaded.raised # "none" THEN Uncaught(loaded.raised)
        ELSE IF filtered.raised # "none" THEN Uncaught(filtered.raised)
        ELSE IF scored.raised # "none" THEN Uncaught(scored.raised)
        ELSE UNION {LET port == build(scored.table, top_n, weighting, "", sorted)
                    IN  IF port.raised # "none" THEN Uncaught(port.raised)
                        ELSE {Completed("build_portfolio", "none", 0, port.table,
                                        <<EchoLine("", "ticker weight score")>>, <<>>)} :
                       sorted \in SortValues(scored.table.rows)}

\* what the pipeline logs before the command ends: nothing when the
\* validator cannot be constructed or rich is missing
CliLog(file, given, min_yield, max_payout, min_cagr, reached) ==
    IF ~reached \/ DgiRowValidator(given).raised # "none" THEN <<>>
    ELSE LoadLog(CliRepository(file, DgiRowValidator(given)))
         \o ToolLog(load_universe(CliRepository(file, DgiRowValidator(given))),
                    min_yield, max_payout, min_cagr)

\* thresholds of a command line: those of the pipeline, and negative ones
CliThresholds == Thresholds \cup { <<-1, 100, 0>>, <<0, -1, 0>>, <<2, 50, -5>> }

\* --weighting values
CliWeightings == {"equal", "score", "other"}

\* --top-n values
CliTopNs == {0, 1, 2, 10}

InitCli ==
    /\ pc = "cli"
    /\ repo \in ToolRepositories
    /\ rows = <<>>
    /\ i = 0
    /\ valid_rows = <<>>
    /\ errors = <<>>
    /\ log = <<>>
    /\ vret = NoVret
    /\ df = NoTable
    /\ args = NoArgs
    /\ ret = NoRet
    /\ provider = NoProvider

\* python -m dgi.cli screen --csv-path ... --min-yield ... ; rich tells
\* whether the rich package can be imported
Screen(min_yield, max_payout, min_cagr, rich) ==
    /\ pc = "cli"
    /\ args' = [op |-> "screen", min_yield |-> min_yield, max_payout |-> max_payout,
                min_cagr |-> min_cagr, rich |-> rich]
    /\ ret' \in screen(repo, min_yield, max_payout, min_cagr, rich)
    /\ log' = log \o CliLog(repo, <<>>, min_yield, max_payout, min_cagr,
                            rich /\ min_yield >= 0 /\ max_payout >= 0 /\ min_cagr >= 0)
    /\ pc' = "exited"
    /\ UNCHANGED <<repo, rows, i, valid_rows, errors, vret, df>>
    /\ UNCHANGED provider

\* python -m dgi.cli build-portfolio --csv-path ... --top-n ... --weighting ...
BuildPortfolio(top_n, weighting, min_yield, max_payout, min_cagr) ==
    /\ pc = "cli"
    /\ args' = [op |-> "build_portfolio", min_yield |-> min_yield, max_payout |-> max_payout,
                min_cagr |-> min_cagr, top_n |-> top_n, weighting |-> weighting]
    /\ ret' \in build_portfolio(repo, top_n, weighting, min_yield, max_payout, min_cagr)
    /\ log' = log \o CliLog(repo, <<>>, min_yield, max_payout, min_cagr, TRUE)
    /\ pc' = "exited"
    /\ UNCHANGED <<repo, rows, i, valid_rows, errors, vret, df>>
    /\ UNCHANGED provider

NextCli ==
    \/ \E th \in CliThresholds, rich \in BOOLEAN : Screen(th[1], th[2], th[3], rich)
    \/ \E th \in CliThresholds, top_n \in CliTopNs, weighting \in CliWeightings :
          BuildPortfolio(top_n, weighting, th[1], th[2], th[3])

SpecCli == InitCli /\ [][NextCli]_vars

(***************************************************************************)
(* Method calls on a Screener object, as the tests make them.              *)
(***************************************************************************)
\* what a Screener object has: the methods of the class and the fields
\* __init__ sets
ScreenerAttributes ==
    {"default_score", "rows_to_dataframe", "load_universe", "apply_filters", "add_scores",
     "_repository", "_filters", "_scoring_strategy", "_filter_strategy"}

\* the methods the tests call without a table argument
CalledMethods == {"load_universe", "screen"}

\* screener.<name>(...): the attribute lookup comes first and raises
\* AttributeError for a name the object does not have
MethodCallResult(name, r) ==
    IF name \notin ScreenerAttributes THEN Raised(name, "AttributeError")
    ELSE load_universe(r)

MethodCallLog(name, r) ==
    IF name \notin ScreenerAttributes THEN <<>> ELSE LoadLog(r)

\* screener.<name>(min_yield=..., max_payout=..., min_cagr=...) on a
\* Screener(repo); load_universe is called without thresholds
MethodCall(name, th) ==
    /\ pc = "load_universe"
    /\ name = "load_universe" => th = <<0, 100, 0>>
    /\ args' = [op |-> name, min_yield |-> th[1], max_payout |-> th[2], min_cagr |-> th[3]]
    /\ ret' = MethodCallResult(name, repo)
    /\ log' = log \o MethodCallLog(name, repo)
    /\ pc' = "called"
    /\ UNCHANGED <<repo, rows, i, valid_rows, errors, vret, df>>
    /\ UNCHANGED provider

NextCalls == \E name \in CalledMethods, th \in Thresholds : MethodCall(name, th)

SpecCalls == Init /\ [][NextCalls]_vars

(***************************************************************************)
(* LLMProvider.client: the lazily initialised client of a provider.  In    *)
(* provider, _client is 0 for None and otherwise the identity of a client  *)
(* object, created counts the client objects constructed, and accesses     *)
(* records how each access to the property ended.                          *)
(***************************************************************************)
\* accesses to the property in one run
MaxAccesses == 4

\* OpenAIProvider, AnthropicProvider, and the DummyProvider of the tests
ProviderKinds == {"OpenAIProvider", "AnthropicProvider", "DummyProvider"}

\* _initialize_client: ValueError without an API key in the config or the
\* environment; else the chat client is constructed, which raises for
\* extra_params it does not accept; DummyProvider returns its client
_initialize_client(p) ==
    IF p.kind = "DummyProvider" THEN [raised |-> "none", client |-> p.created + 1]
    ELSE IF ~(p.api_key \/ p.env_key) THEN [raised |-> "ValueError", client |-> 0]
    ELSE IF p.bad_params THEN [raised |-> "ValidationError", client |-> 0]
    ELSE [raised |-> "none", client |-> p.created + 1]

Access(raised, client, initialised) ==
    [raised |-> raised, client |-> client, initialised |-> initialised]

\* (mutant) the property initialises a client on every access
client_AlwaysInitialize(p) ==
    LET made == _initialize_client(p)
    IN  IF made.raised # "none"
        THEN [p EXCEPT !.accesses = Append(@, Access(made.raised, 0, TRUE))]
        ELSE [p EXCEPT !._client = made.client, !.created = made.client,
                       !.accesses = Append(@, Access("none", made.client, TRUE))]

\* the client property: the provider after one access
client(p) ==
    IF p._client = 0
    THEN LET made == _initialize_client(p)
         IN  IF made.raised # "none"
             THEN [p EXCEPT !.accesses = Append(@, Access(made.raised, 0, TRUE))]
             ELSE [p EXCEPT !._client = made.client, !.created = made.client,
                            !.accesses = Append(@, Access("none", made.client, TRUE))]
    ELSE [p EXCEPT !.accesses = Append(@, Access("none", p._client, FALSE))]

\* LLMProvider.__init__: config stored, _client None
InitProviders ==
    /\ pc = "provider"
    /\ repo = NoRepo
    /\ rows = <<>>
    /\ i = 0
    /\ valid_rows = <<>>
    /\ errors = <<>>
    /\ log = <<>>
    /\ vret = NoVret
    /\ df = NoTable
    /\ args = NoArgs
    /\ ret = NoRet
    /\ provider \in {[kind |-> k, api_key |-> a, env_key |-> e, bad_params |-> b,
                      _client |-> 0, created |-> 0, accesses |-> <<>>] :
                        k \in ProviderKinds, a \in BOOLEAN, e \in BOOLEAN, b \in BOOLEAN}

\* provider.client
AccessClient ==
    /\ pc = "provider"
    /\ Len(provider.accesses) < MaxAccesses
    /\ provider' = client(provider)
    /\ UNCHANGED <<pc, repo, rows, i, valid_rows, errors, log, vret, df, args, ret>>

\* the API key of the environment is set or removed between two accesses
SetEnvKey(present) ==
    /\ pc = "provider"
    /\ provider.env_key # present
    /\ provider' = [provider EXCEPT !.env_key = present]
    /\ UNCHANGED <<pc, repo, rows, i, valid_rows, errors, log, vret, df, args, ret>>

NextProviders ==
    \/ AccessClient
    \/ \E present \in BOOLEAN : SetEnvKey(present)

SpecProviders == InitProviders /\ [][NextProviders]_vars

(***************************************************************************)
(* DefaultFilter.filter: the claims.                                       *)
(***************************************************************************)
RowsOf(t) == {t.rows[k] : k \in Indices(t.rows)}

\* C1: DefaultFilter.filter returns exactly the rows of its input with
\* dividend_yield >= min_yield, payout <= max_payout and dividend_cagr >=
\* min_cagr (a row on a threshold is kept), in input order, every column kept.
C1_DefaultFilterExact ==
    (pc = "filtered" /\ ret.op = "filter") =>
        /\ ret.raised = "none"
        /\ ret.table.cols = df.cols
        /\ \A r \in RowsOf(df) :
              r \in RowsOf(ret.table) <=>
                  ~(r.dividend_yield < args.min_yield \/ r.payout > args.max_payout
                    \/ r.dividend_cagr < args.min_cagr)
        /\ RowsOf(ret.table) \subseteq RowsOf(df)
        /\ \A a, b \in Indices(ret.table.rows) :
              a < b => ret.table.rows[a].idx < ret.table.rows[b].idx

C1_Witness ==
    /\ pc = "filtered" /\ ret.op = "filter"
    /\ args.min_yield = 2 /\ args.max_payout = 50 /\ args.min_cagr = 5
    /\ Len(df.rows) = 3 /\ Len(ret.table.rows) = 2
    /\ \E k \in Indices(ret.table.rows) :
          /\ ret.table.rows[k].dividend_yield = 2
          /\ ret.table.rows[k].payout = 50
          /\ ret.table.rows[k].dividend_cagr = 5

(***************************************************************************)
(* DefaultScoring.score: the claims.                                       *)
(***************************************************************************)
\* clamp01 of the fraction x / one, as a numerator over one
Clamp01(x, one) == IF x < 0 THEN 0 ELSE IF x > one THEN one ELSE x

\* clamp01((clamp01(cagr/20) + clamp01(fcf/20) - clamp01(payout/100)) / 3) as
\* a numerator over 6000 = 3 * 2000, 2000 being a multiple of 20 and of 100
ClaimedScore6000(c) ==
    Clamp01(Clamp01(100 * c.dividend_growth_5y, 2000) + Clamp01(100 * c.fcf_yield, 2000)
            - Clamp01(20 * c.payout_ratio, 2000), 6000)

\* C2: for every valid record DefaultScoring.score returns
\* clamp01((clamp01(cagr/20) + clamp01(fcf/20) - clamp01(payout/100)) / 3), a
\* value within [0.0, 1.0]; cagr = 10, fcf = 10, payout = 50 gives 0.5 / 3.
C2_DefaultScoringFormula ==
    (pc = "done" /\ ret.op = "score") =>
        /\ 6000 * ret.value = ScoreOne * ClaimedScore6000(args.company)
        /\ 0 <= ret.value /\ ret.value <= ScoreOne
        /\ (/\ args.company.dividend_growth_5y = 10
            /\ args.company.fcf_yield = 10
            /\ args.company.payout_ratio = 50) => 6 * ret.value = ScoreOne

C2_Witness ==
    /\ pc = "done" /\ ret.op = "score"
    /\ args.company.dividend_growth_5y = 10
    /\ args.company.fcf_yield = 10
    /\ args.company.payout_ratio = 50
    /\ ret.value > 0

(***************************************************************************)
(* Screener.add_scores: the claims.                                        *)
(***************************************************************************)
\* C3: every score add_scores attaches lies in [0.0, 1.0], however the
\* Screener was constructed, also without a scoring_strategy.
C3_ScoresInUnitInterval ==
    (ret.op = "add_scores" /\ ret.raised = "none") =>
        \A k \in Indices(ret.table.rows) :
            0 <= ret.table.rows[k].score /\ ret.table.rows[k].score <= ScoreOne

\* the row cannot be scored: CompanyData(**row) fails, or the strategy raises
CannotScore(strategy, t, r) ==
    \/ FieldErrors(ToDict(t, r)) # <<>>
    \/ StrategyScore(strategy, CompanyData(ToDict(t, r))).raised

ErrorEntries == SelectSeq(log, LAMBDA e : e.level = "error")

\* C7: in add_scores a row that cannot be scored gets score 0.0 and one logged
\* error; nothing is raised to the caller, and every other row of the table
\* gets its own score.
C7_UnscorableRowsScoreZero ==
    args.op = "add_scores" =>
        /\ ret.op = "add_scores" /\ ret.raised = "none"
        /\ Len(ret.table.rows) = Len(df.rows)
        /\ \A k \in Indices(df.rows) :
              /\ ret.table.rows[k].idx = df.rows[k].idx
              /\ IF CannotScore(args.scoring_strategy, df, df.rows[k])
                 THEN ret.table.rows[k].score = 0
                 ELSE ret.table.rows[k].score =
                        StrategyScore(args.scoring_strategy, CompanyData(ToDict(df, df.rows[k]))).value
        /\ Len(ErrorEntries) =
              Cardinality({k \in Indices(df.rows) : CannotScore(args.scoring_strategy, df, df.rows[k])})
        /\ \A k \in Indices(ErrorEntries) : ErrorEntries[k].lines[1].detail[1] = "Error scoring row"

C7_Witness ==
    /\ args.op = "add_scores" /\ args.scoring_strategy = "RaisingScoring"
    /\ ret.raised = "none"
    /\ Len(df.rows) = 3
    /\ FieldErrors(ToDict(df, df.rows[1])) # <<>>
    /\ FieldErrors(ToDict(df, df.rows[2])) = <<>> /\ df.rows[2].fcf_yield < 0
    /\ ret.table.rows[1].score = 0 /\ ret.table.rows[2].score = 0
    /\ ret.table.rows[3].score > 0

(***************************************************************************)
(* portfolio.build: the claims.                                            *)
(***************************************************************************)
BadTopN == args.top_n > Len(df.rows)

NoScoreColumn == ~HasCol(df, "score")

NoTickerNorSymbol == ~HasCol(df, "ticker") /\ ~HasCol(df, "symbol")

BadWeighting == args.weighting # "equal" /\ args.weighting # "score"

BuildRejected == ret.raised = "ValueError" /\ ret.table = NoTable

\* C8 as stated: build raises ValueError and returns no table whenever top_n
\* exceeds the number of rows, or the table has no score column, or it has
\* neither a ticker nor a symbol column, or weighting is neither equal nor score.
C8_Original ==
    (ret.op = "build" /\ (BadTopN \/ NoScoreColumn \/ NoTickerNorSymbol \/ BadWeighting))
        => BuildRejected

\* C8 amended: build raises ValueError and returns no table whenever top_n
\* exceeds the number of rows, or the table has no score column, or the ticker
\* column is missing (with no ticker_col argument: the table has neither a
\* ticker nor a symbol column; with one: it has no column of that name), or
\* weighting is neither equal nor score.
C8_BuildRejects ==
    (ret.op = "build"
     /\ \/ BadTopN
        \/ NoScoreColumn
        \/ args.ticker_col = "" /\ NoTickerNorSymbol
        \/ args.ticker_col # "" /\ ~HasCol(df, args.ticker_col)
        \/ BadWeighting)
        => BuildRejected

C8_Witness ==
    /\ ret.op = "build" /\ BuildRejected
    /\ BadWeighting /\ ~BadTopN /\ ~NoScoreColumn /\ ~NoTickerNorSymbol
    /\ args.ticker_col = "" /\ args.top_n = 2 /\ Len(df.rows) = 3

\* C9: a build that does not raise returns exactly top_n rows with the columns
\* ticker, weight, score, in descending score order, and every selected row
\* scores at least as high as every row not selected.
C9_TopNRows ==
    (ret.op = "build" /\ ret.raised = "none") =>
        /\ Len(ret.table.rows) = args.top_n
        /\ ret.table.cols = <<"ticker", "weight", "score">>
        /\ \A k \in 1..(Len(ret.table.rows) - 1) :
              ret.table.rows[k].score >= ret.table.rows[k + 1].score
        /\ \A k \in Indices(ret.table.rows) : \A j \in Indices(df.rows) :
              (\A m \in Indices(ret.table.rows) : ret.table.rows[m].idx # df.rows[j].idx)
                  => ret.table.rows[k].score >= df.rows[j].score

RECURSIVE SumWeightNums(_)
SumWeightNums(rws) == IF rws = <<>> THEN 0 ELSE rws[1].weight.num + SumWeightNums(Tail(rws))

Abs(x) == IF x < 0 THEN 0 - x ELSE x

\* the weights, fractions over one denominator d, sum to 1.0 within 1e-8:
\* |sum of numerators - d| / |d| <= 1e-8; the empty sum is 0.0
WeightsSumToOne(rws) ==
    /\ rws # <<>>
    /\ \A k \in Indices(rws) : rws[k].weight.den = rws[1].weight.den
    /\ rws[1].weight.den # 0
    /\ Abs(SumWeightNums(rws) - rws[1].weight.den) <= Abs(rws[1].weight.den) \div 100000000

\* C10: for both weighting modes and every top_n build accepts (top_n <= number
\* of rows) the weights of the returned portfolio sum to 1.0 within 1e-8.
C10_WeightsSumToOne ==
    (ret.op = "build" /\ ret.raised = "none") => WeightsSumToOne(ret.table.rows)


(***************************************************************************)
(* DgiRowValidator.validate_rows and Screener.load_universe: the claims.   *)
(***************************************************************************)
WellFormed(row) == StrategyValidate(repo.strategy, row).ok

\* the 1-based positions of the well-formed rows, in input order
GoodPositions == SelectSeq([k \in Indices(rows) |-> k], LAMBDA k : WellFormed(rows[k]))

\* C4: given N raw rows of which K > 0 are well-formed, validate_rows returns
\* exactly K records, one per well-formed row in input order and none for a
\* malformed row, whatever exception the strategy raised for the rows before.
C4_ValidRowsReturned ==
    /\ (vret.state # "none" /\ GoodPositions # <<>>) => vret.state = "returned"
    /\ vret.state = "returned" =>
          /\ Len(vret.list) = Len(GoodPositions)
          /\ \A k \in Indices(GoodPositions) :
                vret.list[k] = StrategyValidate(repo.strategy, rows[GoodPositions[k]]).value

C4_Witness ==
    /\ vret.state = "returned"
    /\ repo.strategy = "KeyErrorValidation"
    /\ Len(rows) = 3
    /\ ~WellFormed(rows[1]) /\ WellFormed(rows[2]) /\ WellFormed(rows[3])
    /\ rows[2] # rows[3]

\* C5: validate_rows raises DataValidationError exactly when no row validated
\* (all malformed, or no rows at all); it then returns nothing and the message
\* holds one line per failed row, the row at 0-based position i tagged Row i+2.
C5_RaisesIffNoValidRow ==
    /\ vret.state # "none" => (vret.state = "raised" <=> GoodPositions = <<>>)
    /\ vret.state = "raised" =>
          /\ vret.exc = "DataValidationError"
          /\ vret.list = <<>>
          /\ Len(vret.msg) = Len(rows) + 1
          /\ \A k \in Indices(rows) :
                /\ vret.msg[k + 1].tag = (k - 1) + 2
                /\ \E j \in Indices(vret.msg[k + 1].detail) :
                      vret.msg[k + 1].detail[j] = FieldErrors(rows[k])[1]

C5_Witness ==
    /\ vret.state = "raised"
    /\ Len(rows) = 3
    /\ rows[1] # rows[2]

\* the number of records the repository supplied to load_universe
Supplied == IF repo.kind = "memory" THEN repo.data ELSE vret.list

LoadedTableOk ==
    /\ ret.raised = "none"
    /\ ret.table.rows # <<>>
    /\ ret.table.cols = <<"symbol", "name", "sector", "industry", "dividend_yield",
                          "payout", "dividend_cagr", "fcf_yield">>
    /\ Len(ret.table.rows) = Len(Supplied)
    /\ \A k \in Indices(Supplied) :
          /\ ret.table.rows[k].symbol = Supplied[k].symbol
          /\ ret.table.rows[k].payout = Supplied[k].payout_ratio
          /\ ret.table.rows[k].dividend_cagr = Supplied[k].dividend_growth_5y

LoadRaisedForNoData ==
    /\ IsValueError(ret.raised)
    /\ Supplied = <<>>
    /\ ret.table = NoTable

\* C6 as stated: load_universe either returns a non-empty table with the eight
\* columns in order and one row per supplied record, or raises ValueError.
C6_Original ==
    (pc = "done" /\ ret.op = "load_universe") => (LoadedTableOk \/ IsValueError(ret.raised))

\* C6 amended: load_universe never returns an empty table.  It returns a
\* non-empty table with the eight columns in order and one row per supplied
\* record; or raises ValueError, which it does when the repository supplied no
\* record or no CSV row validated; or lets the repository's own read error
\* (FileNotFoundError) through when the CSV cannot be read.
C6_LoadUniverse ==
    (pc = "done" /\ ret.op = "load_universe") =>
        \/ LoadedTableOk /\ Supplied # <<>>
        \/ LoadRaisedForNoData /\ (repo.kind = "csv" => repo.readable)
        \/ ret.raised = "FileNotFoundError" /\ repo.kind = "csv" /\ ~repo.readable

C6_Witness ==
    /\ pc = "done" /\ ret.op = "load_universe"
    /\ LoadedTableOk
    /\ repo.kind = "csv"
    /\ Len(ret.table.rows) = 2 /\ Len(rows) = 3

(***************************************************************************)
(* The weighting strategies: the claims.                                   *)
(***************************************************************************)
\* the weight w, a fraction, is exactly 1/n
IsOneOver(w, n) == w.den # 0 /\ w.num * n = w.den

\* C11: with weighting "equal", every row of the portfolio build returns has
\* weight exactly 1/top_n, for every top_n build accepts.
C11_EqualWeightIsOneOverTopN ==
    (ret.op = "build" /\ ret.raised = "none" /\ args.weighting = "equal") =>
        \A k \in Indices(ret.table.rows) : IsOneOver(ret.table.rows[k].weight, args.top_n)

\* C12: with weighting "score", each selected row's weight is its score over
\* the sum of the selected scores, so the weights of two selected rows are in
\* the ratio of their scores; when the sum is exactly zero every selected row
\* has the equal weight 1/len(selected) and nothing is divided by zero.
C12_ScoreWeightIsShare ==
    (ret.op = "build" /\ ret.raised = "none" /\ args.weighting = "score") =>
        LET sel == ret.table.rows
            total == SumScores(sel)
        IN  /\ \A k \in Indices(sel) : sel[k].weight.den # 0
            /\ total = 0 => \A k \in Indices(sel) : IsOneOver(sel[k].weight, Len(sel))
            /\ total # 0 =>
                  /\ \A k \in Indices(sel) :
                        sel[k].weight.num * total = sel[k].score * sel[k].weight.den
                  /\ \A a, b \in Indices(sel) :
                        sel[a].weight.num * sel[b].weight.den * sel[b].score
                            = sel[b].weight.num * sel[a].weight.den * sel[a].score

\* scores 30, 60, 90 (the tests' 10, 20, 30), top_n = 2: weights 0.6 and 0.4
C12_Witness ==
    /\ ret.op = "build" /\ ret.raised = "none" /\ args.weighting = "score"
    /\ args.top_n = 2 /\ Len(df.rows) = 3
    /\ df.rows[1].score = 30 /\ df.rows[2].score = 60 /\ df.rows[3].score = 90
    /\ Len(ret.table.rows) = 2
    /\ ret.table.rows[1].score = 90 /\ ret.table.rows[1].weight.num * 10 = 6 * ret.table.rows[1].weight.den
    /\ ret.table.rows[2].score = 60 /\ ret.table.rows[2].weight.num * 10 = 4 * ret.table.rows[2].weight.den

\* the weight w, a fraction, lies in [0.0, 1.0]
InUnitInterval(w) ==
    /\ w.den # 0
    /\ w.den > 0 => (0 <= w.num /\ w.num <= w.den)
    /\ w.den < 0 => (w.den <= w.num /\ w.num <= 0)

\* C13: every weight of a portfolio build returns lies in [0.0, 1.0], for both
\* weighting modes and every scored table the Screener pipeline hands to build,
\* whatever the scoring configuration.
C13_WeightsInUnitInterval ==
    (ret.op = "build" /\ ret.raised = "none") =>
        \A k \in Indices(ret.table.rows) : InUnitInterval(ret.table.rows[k].weight)

Tighter(th1, th2) == th2[1] >= th1[1] /\ th2[2] <= th1[2] /\ th2[3] >= th1[3]

ThresholdsOf(a) == <<a.min_yield, a.max_payout, a.min_cagr>>

\* the strategies whose result is the rows meeting a fixed per-row condition
IsRowwise(fs) ==
    \/ fs.kind \in {"DefaultFilter", "SectorFilter"}
    \/ fs.kind = "CompositeFilter"
       /\ \A k \in Indices(fs.parts) : fs.parts[k].kind \in {"DefaultFilter", "SectorFilter"}

\* a rowwise strategy, or a TopNFilter whose base is one
IsMonotone(fs) ==
    \/ IsRowwise(fs)
    \/ fs.kind = "TopNFilter" /\ IsRowwise(fs.parts[1])

\* with every tighter triple the strategy returns no more rows than it did
NoMoreRowsWhenTighter ==
    \A th2 \in FilterThresholds :
        Tighter(ThresholdsOf(args), th2) =>
            \A r2 \in FilterResults(args.filter_strategy, args.input, th2) :
                r2.raised = "none" /\ Len(r2.table.rows) <= Len(ret.table.rows)

\* with every tighter triple the strategy returns a subset of what it did
SubsetWhenTighter ==
    \A th2 \in FilterThresholds :
        Tighter(ThresholdsOf(args), th2) =>
            \A r2 \in FilterResults(args.filter_strategy, args.input, th2) :
                RowsOf(r2.table) \subseteq RowsOf(ret.table)

\* C15 as stated: for any table and two threshold triples, the second at least
\* as tight in every component, apply_filters with the second returns no more
\* rows than with the first, and with the default filter a subset of them.
C15_Original ==
    (args.op = "apply_filters" /\ pc = "filtered") =>
        /\ NoMoreRowsWhenTighter
        /\ args.filter_strategy.kind = "DefaultFilter" => SubsetWhenTighter

\* C15 amended: the same, for a Screener whose filter strategy is DefaultFilter,
\* SectorFilter, a CompositeFilter of these, or a TopNFilter over one of these;
\* the first three return a subset.
C15_MonotoneFiltering ==
    (args.op = "apply_filters" /\ pc = "filtered") =>
        /\ IsMonotone(args.filter_strategy) => NoMoreRowsWhenTighter
        /\ IsRowwise(args.filter_strategy) => SubsetWhenTighter

C15_Witness ==
    /\ args.op = "apply_filters" /\ pc = "filtered"
    /\ args.filter_strategy.kind = "DefaultFilter"
    /\ ThresholdsOf(args) = <<0, 100, 0>>
    /\ Len(args.input.rows) = 3 /\ Len(ret.table.rows) = 3
    /\ Len(DefaultFilter(args.input, 2, 50, 5).table.rows) = 1

\* C16: no filter strategy (DefaultFilter, SectorFilter, a CompositeFilter,
\* TopNFilter) adds rows or changes the columns: on a table that carries the
\* criterion columns the result has the columns of the input and its rows are
\* rows of the input, each at most once; an empty input gives the empty table
\* with the same columns and nothing is raised.
C16_FiltersNeverAddRows ==
    (args.op = "apply_filters" /\ \A k \in Indices(FilterColumns) : HasCol(args.input, FilterColumns[k])) =>
        /\ ret.raised = "none"
        /\ ret.table.cols = args.input.cols
        /\ RowsOf(ret.table) \subseteq RowsOf(args.input)
        /\ \A a, b \in Indices(ret.table.rows) :
              a # b => ret.table.rows[a].idx # ret.table.rows[b].idx
        /\ args.input.rows = <<>> => ret.table = Table(args.input.cols, <<>>)

\* TopNFilter(2) over three scored rows, the lowest first: two rows come back,
\* the highest first
C16_Witness ==
    /\ args.op = "apply_filters" /\ ret.raised = "none"
    /\ args.filter_strategy.kind = "TopNFilter" /\ args.filter_strategy.top_n = 2
    /\ HasCol(args.input, "score")
    /\ Len(args.input.rows) = 3 /\ Len(ret.table.rows) = 2
    /\ ret.table.rows[1].idx > ret.table.rows[2].idx
    /\ ret.table.rows[1].score > ret.table.rows[2].score

NumberWithin(cell, lo, hi) == cell.k = "num" /\ ~(cell.v < lo) /\ ~(cell.v > hi)

\* all eight fields present, the text fields non-empty, the numeric fields
\* numbers inside their declared bounds
Acceptable(row) ==
    /\ row.symbol # "" /\ row.name # "" /\ row.sector # "" /\ row.industry # ""
    /\ NumberWithin(row.dividend_yield, 0, 100)
    /\ NumberWithin(row.payout, 0, 200)
    /\ NumberWithin(row.dividend_cagr, 0 - 100, 100)
    /\ NumberWithin(row.fcf_yield, 0 - 100, 100)

AcceptablePositions == SelectSeq([k \in Indices(rows) |-> k], LAMBDA k : Acceptable(rows[k]))

LogPositions(level) == SelectSeq([k \in Indices(log) |-> k], LAMBDA k : log[k].level = level)

\* the 1-based positions of the rows the strategy rejects
BadPositions == SelectSeq([k \in Indices(rows) |-> k], LAMBDA k : ~WellFormed(rows[k]))

\* C19: when some but not all rows fail, validate_rows logs exactly one
\* warning, after the last row was processed, that lists every skipped row;
\* when no row fails, and while rows are still being processed, it logs none.
C19_OneAggregatedWarning ==
    /\ pc = "validate_rows" => LogPositions("warning") = <<>>
    /\ vret.state = "raised" => LogPositions("warning") = <<>>
    /\ (vret.state = "returned" /\ BadPositions = <<>>) => LogPositions("warning") = <<>>
    /\ (vret.state = "returned" /\ BadPositions # <<>>) =>
          /\ Len(LogPositions("warning")) = 1
          /\ \A k \in Indices(LogPositions("error")) :
                LogPositions("error")[k] < LogPositions("warning")[1]
          /\ Len(LogPositions("error")) = Len(BadPositions)
          /\ LET lines == log[LogPositions("warning")[1]].lines
             IN  /\ Len(lines) = Len(BadPositions) + 1
                 /\ \A k \in Indices(BadPositions) :
                       lines[k + 1].tag = (BadPositions[k] - 1) + 2

C19_Witness ==
    /\ vret.state = "returned"
    /\ Len(rows) = 3 /\ Len(BadPositions) = 2 /\ BadPositions[1] = 1
    /\ Len(LogPositions("warning")) = 1
    /\ Len(log[LogPositions("warning")[1]].lines) = 3

(***************************************************************************)
(* The table add_scores returns: the claims.                               *)
(***************************************************************************)
\* C20: add_scores returns the rows of its input in the same order, with the
\* columns of the input (a table not scored before) and one score column after
\* them, one score per row and every other cell as it was; for an empty input
\* it returns the empty table with the score column appended; it never raises.
C20_AddScoresFrame ==
    (args.op = "add_scores" /\ ~HasCol(args.input, "score")) =>
        /\ ret.raised = "none"
        /\ ret.table.cols = Append(args.input.cols, "score")
        /\ Len(ret.table.rows) = Len(args.input.rows)
        /\ \A k \in Indices(args.input.rows) :
              [ret.table.rows[k] EXCEPT !.score = args.input.rows[k].score] = args.input.rows[k]
        /\ args.input.rows = <<>> => ret.table = Table(Append(args.input.cols, "score"), <<>>)

C20_Witness ==
    /\ args.op = "add_scores" /\ ret.raised = "none"
    /\ pc = "done" /\ Len(log) = 1
    /\ Len(args.input.rows) = 3 /\ Len(ret.table.rows) = 3
    /\ Len(ret.table.cols) = Len(args.input.cols) + 1
    /\ ret.table.rows[1].score # ret.table.rows[2].score
    /\ ret.table.rows[2].score # ret.table.rows[3].score

(***************************************************************************)
(* screen_dividends: the claims.                                           *)
(***************************************************************************)
IsErrorList(list) == Len(list) = 1 /\ DOMAIN list[1] = {"error"}

\* C21: screen_dividends never raises.  When load_universe raised (the file
\* cannot be read, no row validates, the file has no rows) or a later stage
\* raised, the tool returns a list of exactly one mapping with the key
\* "error"; when the stages succeed and the filter leaves no rows it returns
\* the empty list.
C21_ToolNeverRaises ==
    (pc = "returned" /\ ret.op = "screen_dividends") =>
        /\ ret.raised = "none"
        /\ ToolFailure(args.loaded, args.min_yield, args.max_payout, args.min_cagr) # "none"
              => IsErrorList(ret.value)
        /\ (/\ args.loaded.raised = "none"
            /\ DefaultFilter(args.loaded.table, args.min_yield, args.max_payout,
                             args.min_cagr).table.rows = <<>>)
              => ret.value = <<>>

\* an unreadable file has been answered with the error mapping
C21_Witness ==
    /\ pc = "returned"
    /\ ret.op = "screen_dividends"
    /\ args.loaded.raised = "FileNotFoundError"
    /\ IsErrorList(ret.value)

\* a load whose rows are all filtered out has been answered with the empty list
C21_WitnessEmpty ==
    /\ pc = "returned"
    /\ args.loaded.raised = "none"
    /\ ret.value = <<>>
    /\ args.top_n = 10

\* the claimed result of a successful call, for the rows that pass the filter
ToolResultAsClaimed(list, passing, a) ==
    /\ Len(list) <= a.top_n
    /\ \A k \in 1..(Len(list) - 1) : list[k].score >= list[k + 1].score
    /\ \A k \in Indices(list) :
          /\ list[k].dividend_yield >= a.min_yield
          /\ list[k].payout_ratio <= a.max_payout
          /\ list[k].dividend_growth_5y >= a.min_cagr
          /\ 0 <= list[k].score /\ list[k].score <= ScoreOne
    /\ Len(passing) >= a.top_n => Len(list) = a.top_n

\* C22: a successful screen_dividends(min_yield, max_payout, min_cagr, top_n)
\* returns at most top_n mappings in descending score order, each within the
\* three thresholds and with a score in [0,1], and exactly top_n mappings
\* when at least top_n stocks pass the filters.
C22_ToolResults ==
    (/\ pc = "returned"
     /\ ret.op = "screen_dividends"
     /\ ToolFailure(args.loaded, args.min_yield, args.max_payout, args.min_cagr) = "none") =>
        ToolResultAsClaimed(ret.value,
                            DefaultFilter(args.loaded.table, args.min_yield, args.max_payout,
                                          args.min_cagr).table.rows,
                            args)

(***************************************************************************)
(* The command line: the claims.                                           *)
(***************************************************************************)
HasLine(stream, prefix) == \E k \in Indices(stream) : stream[k].prefix = prefix

NonNegative(a) == a.min_yield >= 0 /\ a.max_payout >= 0 /\ a.min_cagr >= 0

\* the rows of the file that load and pass the thresholds of the command line
PassingRows(a) ==
    DefaultFilter(load_universe(repo).table, a.min_yield, a.max_payout, a.min_cagr).table.rows

\* C23: when the screen command is given non-negative thresholds and a CSV
\* file that loads (some row validates) and the filter leaves no rows, the
\* process prints an [INFO] message and ends with exit code 0, without an
\* [ERROR] message.
C23_InfoExitZero ==
    (/\ pc = "exited"
     /\ ret.op = "screen"
     /\ args.rich
     /\ NonNegative(args)
     /\ load_universe(repo).raised = "none"
     /\ PassingRows(args) = <<>>) =>
        /\ ret.value = 0
        /\ HasLine(ret.stdout, "[INFO]")
        /\ ~HasLine(ret.stderr, "[ERROR]")

\* the failures the commands are said to report
ClaimedFailure(a) ==
    \/ ~NonNegative(a)
    \/ load_universe(repo).raised # "none"
    \/ /\ a.op = "build_portfolio"
       /\ \/ a.top_n > Len(PassingRows(a))
          \/ a.weighting \notin {"equal", "score"}

\* C24: whenever screen or build-portfolio fails (negative threshold,
\* unreadable CSV, no valid rows, top_n larger than the number of filtered
\* rows, invalid weighting) the process ends with exit code 1 and has
\* written an [ERROR]-prefixed message to standard error.
C24_ErrorExitOne ==
    (/\ pc = "exited"
     /\ ret.op \in {"screen", "build_portfolio"}
     /\ ClaimedFailure(args)) =>
        /\ ret.value = 1
        /\ HasLine(ret.stderr, "[ERROR]")

\* a command line on which nothing is said to fail: every row of the file is
\* valid and passes the non-negative thresholds
HappyPath(a) ==
    /\ a.op = "screen" => a.rich
    /\ NonNegative(a)
    /\ repo.readable
    /\ repo.csv # <<>>
    /\ load_universe(repo).raised = "none"
    /\ Len(PassingRows(a)) = Len(repo.csv)
    /\ a.op = "build_portfolio" =>
          /\ a.top_n <= Len(PassingRows(a))
          /\ a.weighting \in {"equal", "score"}

\* C25: on a CSV whose rows are all valid and pass the non-negative
\* thresholds (for build-portfolio: top_n not above the number of passing
\* rows, weighting equal or score) the command runs load_universe,
\* apply_filters, add_scores (and build), prints the result and ends with
\* exit code 0.
C25_HappyPathExitZero ==
    (/\ pc = "exited"
     /\ ret.op \in {"screen", "build_portfolio"}
     /\ HappyPath(args)) =>
        /\ ret.value = 0
        /\ ret.raised = "none"
        /\ HasLine(ret.stdout, "")
        /\ ~HasLine(ret.stderr, "[ERROR]")
        /\ Len(log) > 0

(***************************************************************************)
(* TopNFilter and SectorFilter: the claims.                                *)
(***************************************************************************)
\* rows is what TopNFilter(top_n, ...) is said to return of the base-filtered
\* table b
TopNOf(rws, b, top_n) ==
    LET n == Min(top_n, Len(b.rows))
        kept == {rws[k].idx : k \in Indices(rws)}
    IN  /\ Len(rws) = n
        /\ IF HasCol(b, "score")
           THEN /\ \A k \in Indices(rws) : rws[k] \in RowsOf(b)
                /\ \A r \in RowsOf(b) :
                      r.idx \notin kept => \A k \in Indices(rws) : rws[k].score >= r.score
           ELSE rws = SubSeq(b.rows, 1, n)

\* C26: TopNFilter(top_n, base).filter applies the base filter and returns
\* min(top_n, number of base-filtered rows) rows: with a score column the
\* highest-scoring ones (every returned score >= every dropped score),
\* without one the first top_n base-filtered rows in positional order.
C26_TopNFilter ==
    (/\ args.op = "apply_filters"
     /\ args.filter_strategy.kind = "TopNFilter"
     /\ ret.raised = "none") =>
        \E b \in FilterResults(args.filter_strategy.parts[1], args.input,
                               <<args.min_yield, args.max_payout, args.min_cagr>>) :
            /\ b.raised = "none"
            /\ TopNOf(ret.table.rows, b.table, args.filter_strategy.top_n)

\* C27: on a table that carries the three criterion columns,
\* SectorFilter(allowed).filter returns exactly the rows of the
\* DefaultFilter result for the same thresholds whose sector is in the
\* allow-list, in the same order; on a table without a sector column it
\* returns the DefaultFilter result unchanged and does not fail.
C27_SectorFilter ==
    (/\ args.op = "apply_filters"
     /\ args.filter_strategy.kind = "SectorFilter") =>
        LET base == DefaultFilter(args.input, args.min_yield, args.max_payout, args.min_cagr)
        IN  /\ ret.raised = "none"
            /\ base.raised = "none"
            /\ ret.table.cols = base.table.cols
            /\ IF HasCol(args.input, "sector")
               THEN ret.table.rows =
                        SelectSeq(base.table.rows,
                                  LAMBDA r : r.sector \in args.filter_strategy.allowed_sectors)
               ELSE ret.table = base.table

\* a row that passes the thresholds has been dropped for its sector, another kept
C27_Witness ==
    /\ args.op = "apply_filters"
    /\ args.filter_strategy = StrategySector({"Tech"})
    /\ HasCol(args.input, "sector")
    /\ ret.raised = "none"
    /\ ret.table.rows # <<>>
    /\ Len(ret.table.rows)
          < Len(DefaultFilter(args.input, args.min_yield, args.max_payout, args.min_cagr).table.rows)

\* the sector step has been skipped on a table without a sector column
C27_WitnessNoSector ==
    /\ args.op = "apply_filters"
    /\ args.filter_strategy.kind = "SectorFilter"
    /\ ~HasCol(args.input, "sector")
    /\ ret.raised = "none"
    /\ ret.table.rows # <<>>

(***************************************************************************)
(* Screener.screen: the claim.                                             *)
(***************************************************************************)
\* the records the repository supplies
SuppliedRecords(r) ==
    IF r.kind = "memory" THEN r.data ELSE validate_rows(r.strategy, r.csv).list

\* C28: Screener.screen(min_yield, max_payout, min_cagr) on a repository
\* that can be read returns the rows of the repository's universe that pass
\* the thresholds; when the repository supplies no rows or every row is
\* filtered out it returns an empty table and does not raise.
C28_ScreenReturnsPassingRows ==
    (/\ pc = "called"
     /\ args.op = "screen"
     /\ repo.readable) =>
        /\ ret.raised = "none"
        /\ ret.table.rows =
              SelectSeq(RowsToTable(SuppliedRecords(repo)).rows, LAMBDA r :
                  /\ r.dividend_yield >= args.min_yield
                  /\ r.payout <= args.max_payout
                  /\ r.dividend_cagr >= args.min_cagr)

(***************************************************************************)
(* validate_rows: the accounting of the rows.                              *)
(***************************************************************************)
\* the row numbers the error messages name
ReportedTags == {errors[k].tag : k \in Indices(errors)}

\* the 1-based positions of the rows no error message names
UnreportedPositions ==
    SelectSeq([k \in Indices(rows) |-> k], LAMBDA k : RowTag(k - 1) \notin ReportedTags)

\* C29: in validate_rows, after each iteration of the row loop the accepted
\* records and the recorded error messages together number the rows
\* processed so far; on exit (return or raise) every one of the N input rows
\* is counted exactly once, as a returned record or as one error message:
\* len(valid) + len(errors) = N, the messages name distinct rows, and the
\* records are those of the rows no message names.
C29_EveryRowCountedOnce ==
    /\ pc = "validate_rows" =>
          /\ i <= Len(rows)
          /\ Len(valid_rows) + Len(errors) = i
    /\ (repo.kind = "csv" /\ vret.state # "none") =>
          /\ i = Len(rows)
          /\ Len(valid_rows) + Len(errors) = Len(rows)
          /\ Cardinality(ReportedTags) = Len(errors)
          /\ valid_rows = [k \in Indices(UnreportedPositions) |->
                              StrategyValidate(repo.strategy, rows[UnreportedPositions[k]]).value]
          /\ vret.state = "returned" => vret.list = valid_rows
          /\ vret.state = "raised" => valid_rows = <<>>

\* the loop has ended on a file with accepted and rejected rows
C29_Witness ==
    /\ repo.kind = "csv"
    /\ vret.state = "returned"
    /\ Len(rows) >= 2
    /\ Len(valid_rows) >= 1
    /\ Len(errors) >= 1

(***************************************************************************)
(* LLMProvider.client: the claim.                                          *)
(***************************************************************************)
\* C30: over any sequence of accesses to the client property of a provider
\* (OpenAIProvider, AnthropicProvider or a subclass whose _initialize_client
\* returns a client), _initialize_client completes successfully at most
\* once: once an access has returned a client every later access returns
\* the same object without initialising again; an access whose
\* initialisation raises leaves _client unset, and the next access
\* initialises again.
C30_ClientInitialisedOnce ==
    pc = "provider" =>
        LET acc == provider.accesses
        IN  /\ provider.created <= 1
            /\ \A j, k \in Indices(acc) :
                  (j < k /\ acc[j].raised = "none") =>
                      /\ acc[k].raised = "none"
                      /\ acc[k].client = acc[j].client
                      /\ ~acc[k].initialised
            /\ \A k \in Indices(acc) :
                  /\ acc[k].raised = "none" => acc[k].client # 0
                  /\ (k > 1 /\ acc[k - 1].raised # "none") => acc[k].initialised
            /\ (acc # <<>> /\ acc[Len(acc)].raised # "none") => provider._client = 0
            /\ (acc # <<>> /\ acc[Len(acc)].raised = "none") =>
                  provider._client = acc[Len(acc)].client

\* an access raised for the missing key, the next one initialised the client,
\* and a later one returned the same client from the cache
C30_Witness ==
    /\ pc = "provider"
    /\ Len(provider.accesses) >= 3
    /\ provider.accesses[1].raised = "ValueError"
    /\ provider.accesses[2].raised = "none"
    /\ provider.accesses[2].initialised
    /\ provider.accesses[3].raised = "none"
    /\ ~provider.accesses[3].initialised
    /\ provider.accesses[3].client = provider.accesses[2].client

====
